---- MODULE Spec2Model ----
(***************************************************************************)
(* The agent coordination core of rzapply/api_server/app.py: the agent     *)
(* registry, the pending queue, the running table, push dispatch over      *)
(* WebSocket connections, long-poll hand-off and result recording.         *)
(*                                                                         *)
(* The service runs on one asyncio event loop.  A handler runs without     *)
(* interruption until it suspends (awaiting a socket send, a socket        *)
(* receive or a sleep); `cur` names the handler that is running, 0 when    *)
(* the loop is free to resume any ready handler.  Each handler's code is   *)
(* cut into steps at its lock sections and loop iterations.                *)
(***************************************************************************)
EXTENDS Integers, Sequences, FiniteSets, TLC

\* ---------------------------------------------------------------- bounds
NumClients == 2
MaxTasks == 3
NumWs == 2
NumHttp == 2
MaxPending == 2
MaxNesting == 1
MaxTime == 2
MaxTimeout == 2
\* how many tasks are enqueued in the runs of each specification
PushTasks == 2
PollTasks == 2

Clients == 1..NumClients
Tasks == 1..MaxTasks
WsProcs == 1..NumWs
HttpProcs == (NumWs + 1)..(NumWs + NumHttp)
Procs == WsProcs \cup HttpProcs
\* the handler of requests that arrive one at a time
OneHttp == {NumWs + 1}
OneWs == {NumWs}

\* a null value (Python None) and a missing dict key
None == 0
Absent == 0 - 1

Statuses == {"idle", "running", "offline"}

VARIABLES
  AGENT_PENDING_TASKS,   \* deque of task ids, head first
  AGENT_RUNNING_TASKS,   \* dict in insertion order: <<[task_id, client_id, channel], ...>>
  AGENT_CLIENTS,         \* client id -> [status, task_id]; status "none": no record
  AGENT_RESULTS,         \* task id -> [client_id, status]; status "none": no result
  AGENT_LOCK,            \* the handler inside `async with AGENT_LOCK`, 0 when free
  AGENT_WS_CONNECTIONS,  \* client id -> the connection (its handler), 0: no entry
  AGENT_WS_IDLE,         \* set of client ids
  proc,                  \* per handler: kind, position, locals, call stack
  cur,                   \* the handler the event loop is running, 0: none
  now,                   \* time.monotonic(), in whole units
  issued,                \* number of task ids handed out by enqueue so far
  agent                  \* one worker process (agent.py): mode, packets, executor, tasks

vars == <<AGENT_PENDING_TASKS, AGENT_RUNNING_TASKS, AGENT_CLIENTS, AGENT_RESULTS,
          AGENT_LOCK, AGENT_WS_CONNECTIONS, AGENT_WS_IDLE, proc, cur, now, issued, agent>>

shared == <<AGENT_PENDING_TASKS, AGENT_RUNNING_TASKS, AGENT_CLIENTS, AGENT_RESULTS,
            AGENT_WS_CONNECTIONS, AGENT_WS_IDLE>>

\* ---------------------------------------------------------------- helpers
\* the value of a missing AGENT_RUNNING_TASKS key; channel "none": the key "channel" is not set
NoInfo == [task_id |-> None, client_id |-> None, channel |-> "none"]
NoClient == [status |-> "none", task_id |-> Absent]
NoResult == [client_id |-> None, status |-> "none"]
NoResp == [code |-> 0, task_id |-> None, pending |-> 0]

Resp(code, task, pending) == [code |-> code, task_id |-> task, pending |-> pending]

\* a call frame of _dispatch_tasks or _drop_ws_connection with its locals;
\* index: the position of the for loop over assignments
NoFrame == [fn |-> "none", client_id |-> None, idle_clients |-> <<>>,
            assignments |-> <<>>, index |-> 1, requeue_tasks |-> <<>>, todo |-> <<>>]

FreeProc == [kind |-> "none", pc |-> "done", ret |-> "none",
             client_id |-> None, task_id |-> None, status |-> "none",
             stack |-> <<>>, timeout |-> 0, deadline |-> 0, wake |-> 0,
             resp |-> NoResp, token_ok |-> TRUE, msg |-> "none",
             payload_client |-> None]

RunningIds == {AGENT_RUNNING_TASKS[i].task_id : i \in 1..Len(AGENT_RUNNING_TASKS)}
\* dict operations on the running table
RunGet(run, t) ==
  IF \E i \in 1..Len(run) : run[i].task_id = t
  THEN run[CHOOSE i \in 1..Len(run) : run[i].task_id = t]
  ELSE NoInfo
RunSetNothing(run, t, c, ch) == run
RunSet(run, t, c, ch) ==
  LET info == [task_id |-> t, client_id |-> c, channel |-> ch] IN
  IF \E i \in 1..Len(run) : run[i].task_id = t
  THEN [i \in 1..Len(run) |-> IF run[i].task_id = t THEN info ELSE run[i]]
  ELSE Append(run, info)
RunPop(run, t) == SelectSeq(run, LAMBDA r : r.task_id # t)
Registered == {c \in Clients : AGENT_CLIENTS[c].status # "none"}

Range(s) == {s[i] : i \in 1..Len(s)}
Count(s, x) == Cardinality({i \in 1..Len(s) : s[i] = x})
Max(a, b) == IF a >= b THEN a ELSE b

\* every order in which iterating a set can yield its members
Orders(S) == {s \in [1..Cardinality(S) -> S] : \A i, j \in 1..Cardinality(S) : i # j => s[i] # s[j]}

Top(p) == proc[p].stack[Len(proc[p].stack)]
Pop(st) == SubSeq(st, 1, Len(st) - 1)
SetTop(st, f) == [st EXCEPT ![Len(st)] = f]

\* positions at which a handler is suspended (the loop runs someone else)
Suspended == {"done", "send_task", "wait_register", "send_register_ack", "ws_recv",
              "send_heartbeat_ack", "send_heartbeat_ack_idle", "send_result_ack",
              "send_error", "sleep", "close_4400"}

\* ---------------------------------------------------------------- pure steps of the code
\* deque.appendleft / deque.append
AppendLeftAtBack(q, t) == Append(q, t)
AppendLeft(q, t) == <<t>> \o q
AppendRightAtFront(q, t) == <<t>> \o q
AppendRight(q, t) == Append(q, t)

\* line 261: the idle push clients that still have a connection, in set iteration order
IdleClientOrdersOne(idle, conns) ==
  IF {c \in idle : conns[c] # 0} = {} THEN {<<>>}
  ELSE {<<c>> : c \in {d \in idle : conns[d] # 0}}
IdleClientOrders(idle, conns) == Orders({c \in idle : conns[c] # 0})

\* lines 243-246: the running entries _drop_ws_connection takes back, in dict order
DropSelectedNone(run, c) == <<>>
DropSelectedAnyChannel(run, c) == SelectSeq(run, LAMBDA r : r.client_id = c)
DropSelected(run, c) == SelectSeq(run, LAMBDA r : r.client_id = c /\ r.channel = "ws")
DropKeptAll(run, c) == run
DropKept(run, c) == SelectSeq(run, LAMBDA r : ~(r.client_id = c /\ r.channel = "ws"))
TaskIds(entries) == [i \in 1..Len(entries) |-> entries[i].task_id]

\* a registry record after an update of status and task id (only if the record exists)
SetClientStatusOnly(clients, c, status, task) ==
  IF c \in DOMAIN clients /\ clients[c].status # "none"
  THEN [clients EXCEPT ![c].status = status]
  ELSE clients
SetClient(clients, c, status, task) ==
  IF c \in DOMAIN clients /\ clients[c].status # "none"
  THEN [clients EXCEPT ![c] = [status |-> status, task_id |-> task]]
  ELSE clients

\* lines 303-313 and 356-367: the record register writes (it has no task_id key)
RegisterRecord == [status |-> "idle", task_id |-> Absent]

\* the handler's record once control is back in the handler itself
\* (an HTTP handler stops at "return" with its response; a connection handler just ends)
FinishedBare(pr) ==
  IF pr.kind = "ws" THEN FreeProc
  ELSE [FreeProc EXCEPT !.kind = pr.kind, !.pc = "return"]
Finished(pr) ==
  IF pr.kind = "ws" THEN FreeProc
  ELSE [FreeProc EXCEPT !.kind = pr.kind, !.pc = "return", !.client_id = pr.client_id,
                        !.task_id = pr.task_id, !.status = pr.status,
                        !.timeout = pr.timeout, !.deadline = pr.deadline, !.resp = pr.resp,
                        !.token_ok = pr.token_ok]
Returned(pr, st) ==
  IF Len(st) > 0 THEN [pr EXCEPT !.stack = st,
                                 !.pc = IF st[Len(st)].fn = "dispatch" THEN "dispatch_for"
                                        ELSE "drop_return"]
  ELSE IF pr.ret = "done" THEN Finished(pr)
  ELSE [pr EXCEPT !.stack = st, !.pc = pr.ret, !.ret = "none",
                  !.task_id = IF pr.ret = "ws_recv" THEN None ELSE @]

Running(p) == cur = p
Idle == cur = 0 /\ AGENT_LOCK = 0
NextCur(pr, p) == IF pr.pc \in Suspended THEN 0 ELSE p

\* ---------------------------------------------------------------- _dispatch_tasks
\* lines 259-262: enter the function, take the lock, list the idle connected clients
DispatchLock(p) ==
  /\ Running(p) /\ proc[p].pc = "dispatch_lock" /\ AGENT_LOCK = 0
  /\ \E order \in IdleClientOrders(AGENT_WS_IDLE, AGENT_WS_CONNECTIONS) :
       proc' = [proc EXCEPT ![p] = [@ EXCEPT
                  !.pc = "dispatch_while",
                  !.stack = Append(@, [NoFrame EXCEPT !.fn = "dispatch",
                                                      !.idle_clients = order])]]
  /\ AGENT_LOCK' = p
  /\ UNCHANGED <<shared, cur, now, issued>>
  /\ UNCHANGED agent

\* line 284: the end of the "async with AGENT_LOCK" block: the lock is free again
UnlockNever(holder) == holder
Unlock(holder) == 0

\* lines 263-284: one iteration of the while loop, or leaving it (and the lock)
DispatchWhile(p) ==
  /\ Running(p) /\ proc[p].pc = "dispatch_while" /\ AGENT_LOCK = p
  /\ LET f == Top(p) IN
     IF AGENT_PENDING_TASKS # <<>> /\ f.idle_clients # <<>>
     THEN LET client_id == Head(f.idle_clients)
              task_id == Head(AGENT_PENDING_TASKS)
          IN IF AGENT_WS_CONNECTIONS[client_id] = 0
             THEN /\ proc' = [proc EXCEPT ![p].stack =
                                SetTop(@, [f EXCEPT !.idle_clients = Tail(@)])]
                  /\ UNCHANGED <<shared, AGENT_LOCK>>
             ELSE /\ AGENT_PENDING_TASKS' = Tail(AGENT_PENDING_TASKS)
                  /\ AGENT_RUNNING_TASKS' = RunSet(AGENT_RUNNING_TASKS, task_id, client_id, "ws")
                  /\ AGENT_CLIENTS' = SetClient(AGENT_CLIENTS, client_id, "running", task_id)
                  /\ AGENT_WS_IDLE' = AGENT_WS_IDLE \ {client_id}
                  /\ proc' = [proc EXCEPT ![p].stack =
                                SetTop(@, [f EXCEPT !.idle_clients = Tail(@),
                                                    !.assignments = Append(@, <<client_id, task_id>>)])]
                  /\ UNCHANGED <<AGENT_RESULTS, AGENT_WS_CONNECTIONS, AGENT_LOCK>>
     ELSE /\ AGENT_LOCK' = Unlock(p)
          /\ proc' = [proc EXCEPT ![p].pc = "dispatch_for"]
          /\ UNCHANGED shared
  /\ UNCHANGED <<cur, now, issued>>
  /\ UNCHANGED agent

\* lines 285-291: the head of the for loop: return, requeue for a vanished
\* connection, or start sending the task packet
DispatchFor(p) ==
  /\ Running(p) /\ proc[p].pc = "dispatch_for" /\ AGENT_LOCK = 0
  /\ LET f == Top(p) IN
     IF f.index > Len(f.assignments)
     THEN /\ proc' = [proc EXCEPT ![p] = Returned(@, Pop(@.stack))]
          /\ cur' = NextCur(proc'[p], p)
          /\ UNCHANGED shared
     ELSE LET client_id == f.assignments[f.index][1]
              task_id == f.assignments[f.index][2]
          IN IF AGENT_WS_CONNECTIONS[client_id] = 0
             THEN /\ AGENT_PENDING_TASKS' = AppendLeft(AGENT_PENDING_TASKS, task_id)
                  /\ proc' = [proc EXCEPT ![p].stack =
                                SetTop(@, [f EXCEPT !.index = @ + 1])]
                  /\ UNCHANGED <<AGENT_RUNNING_TASKS, AGENT_CLIENTS, AGENT_RESULTS,
                                 AGENT_WS_CONNECTIONS, AGENT_WS_IDLE, cur>>
             ELSE /\ proc' = [proc EXCEPT ![p].pc = "send_task"]
                  /\ cur' = 0
                  /\ UNCHANGED shared
  /\ UNCHANGED <<AGENT_LOCK, now, issued>>
  /\ UNCHANGED agent

\* lines 291-292: ws.send_json returned
SendTaskOk(p) ==
  /\ Idle /\ proc[p].pc = "send_task"
  /\ proc' = [proc EXCEPT ![p] = [@ EXCEPT
                !.pc = "dispatch_for",
                !.stack = SetTop(@, [Top(p) EXCEPT !.index = @ + 1])]]
  /\ cur' = p
  /\ UNCHANGED <<shared, AGENT_LOCK, now, issued>>
  /\ UNCHANGED agent

\* how many _drop_ws_connection calls are open on a handler's stack
Nesting(st) == Cardinality({i \in 1..Len(st) : st[i].fn = "drop"})

\* lines 293-296: ws.send_json raised: requeue the task, then call _drop_ws_connection
SendTaskRaises(p) ==
  /\ Idle /\ proc[p].pc = "send_task"
  /\ LET f == Top(p)
         client_id == f.assignments[f.index][1]
         task_id == f.assignments[f.index][2]
     IN /\ AGENT_PENDING_TASKS' = AppendLeft(AGENT_PENDING_TASKS, task_id)
        /\ proc' = [proc EXCEPT ![p] = [@ EXCEPT
                      !.pc = "drop_lock",
                      !.stack = Append(SetTop(@, [f EXCEPT !.index = @ + 1]),
                                       [NoFrame EXCEPT !.fn = "drop", !.client_id = client_id])]]
  /\ cur' = p
  /\ UNCHANGED <<AGENT_RUNNING_TASKS, AGENT_CLIENTS, AGENT_RESULTS, AGENT_WS_CONNECTIONS,
                 AGENT_WS_IDLE, AGENT_LOCK, now, issued>>
  /\ UNCHANGED agent

\* the same, as long as the queue and the call stack stay within the bounds
SendTaskFail(p) ==
  /\ Len(AGENT_PENDING_TASKS) < MaxPending
  /\ Nesting(proc[p].stack) < MaxNesting
  /\ SendTaskRaises(p)

\* ---------------------------------------------------------------- _drop_ws_connection
\* line 241: AGENT_WS_CONNECTIONS.pop(client_id, None)
PopConnectionKeep(conns, c) == conns
PopConnection(conns, c) == [conns EXCEPT ![c] = 0]

\* lines 239-251: the lock section
DropLock(p) ==
  /\ Running(p) /\ proc[p].pc = "drop_lock" /\ AGENT_LOCK = 0
  /\ LET f == Top(p)
         client_id == f.client_id
         requeue_tasks == TaskIds(DropSelected(AGENT_RUNNING_TASKS, client_id))
     IN /\ AGENT_WS_CONNECTIONS' = PopConnection(AGENT_WS_CONNECTIONS, client_id)
        /\ AGENT_WS_IDLE' = AGENT_WS_IDLE \ {client_id}
        /\ AGENT_RUNNING_TASKS' = DropKept(AGENT_RUNNING_TASKS, client_id)
        /\ AGENT_CLIENTS' = SetClient(AGENT_CLIENTS, client_id, "offline", None)
        /\ proc' = [proc EXCEPT ![p] = [@ EXCEPT
                      !.pc = "drop_requeue",
                      !.stack = SetTop(@, [f EXCEPT !.requeue_tasks = requeue_tasks,
                                                    !.todo = requeue_tasks])]]
  /\ UNCHANGED <<AGENT_PENDING_TASKS, AGENT_RESULTS, AGENT_LOCK, cur, now, issued>>
  /\ UNCHANGED agent

\* lines 252-255: requeue each collected task, then dispatch again if there was one
DropRequeue(p) ==
  /\ Running(p) /\ proc[p].pc = "drop_requeue" /\ AGENT_LOCK = 0
  /\ LET f == Top(p) IN
     IF f.todo # <<>>
     THEN /\ AGENT_PENDING_TASKS' = AppendLeft(AGENT_PENDING_TASKS, Head(f.todo))
          /\ proc' = [proc EXCEPT ![p].stack = SetTop(@, [f EXCEPT !.todo = Tail(@)])]
     ELSE /\ proc' = [proc EXCEPT ![p].pc =
                        IF f.requeue_tasks # <<>> THEN "dispatch_lock" ELSE "drop_return"]
          /\ UNCHANGED AGENT_PENDING_TASKS
  /\ UNCHANGED <<AGENT_RUNNING_TASKS, AGENT_CLIENTS, AGENT_RESULTS, AGENT_WS_CONNECTIONS,
                 AGENT_WS_IDLE, AGENT_LOCK, cur, now, issued>>
  /\ UNCHANGED agent

\* the end of _drop_ws_connection: back to the caller
DropReturn(p) ==
  /\ Running(p) /\ proc[p].pc = "drop_return"
  /\ proc' = [proc EXCEPT ![p] = Returned(@, Pop(@.stack))]
  /\ cur' = NextCur(proc'[p], p)
  /\ UNCHANGED <<shared, AGENT_LOCK, now, issued>>
  /\ UNCHANGED agent

\* ---------------------------------------------------------------- _record_task_result
\* lines 209-218: the lock section of _record_task_result
RecordResultsFirstWins(results, c, t, status) ==
  IF results[t].status # "none" THEN results
  ELSE [results EXCEPT ![t] = [client_id |-> c, status |-> status]]
RecordResults(results, c, t, status) ==
  [results EXCEPT ![t] = [client_id |-> c, status |-> status]]
RecordRunningKeep(run, t) == run
RecordRunning(run, t) == RunPop(run, t)
RecordIdleNever(idle, conns, clients, c) == idle
RecordIdle(idle, conns, clients, c) ==
  IF c \in DOMAIN clients /\ clients[c].status # "none" /\ conns[c] # 0
  THEN idle \cup {c} ELSE idle

\* ---------------------------------------------------------------- HTTP handlers
Startable(p) == Idle /\ proc[p].pc = "done"

\* a uuid4: an id no record carries yet
FreshClientUsed == CHOOSE c \in Clients : \A d \in Clients : c <= d
FreshClient == CHOOSE c \in Clients \ Registered : \A d \in Clients \ Registered : c <= d

\* POST /register, lines 299-319
RegisterAgent(p, c) ==
  /\ Startable(p)
  /\ c = None => Clients \ Registered # {}
  /\ LET client_id == IF c # None THEN c ELSE FreshClient IN
     /\ AGENT_CLIENTS' = [AGENT_CLIENTS EXCEPT ![client_id] = RegisterRecord]
     /\ proc' = [proc EXCEPT ![p] = [FreeProc EXCEPT !.kind = "register", !.pc = "return",
                                       !.client_id = client_id,
                                       !.resp = Resp(200, None, 0)]]
  /\ cur' = p
  /\ UNCHANGED <<AGENT_PENDING_TASKS, AGENT_RUNNING_TASKS, AGENT_RESULTS,
                 AGENT_WS_CONNECTIONS, AGENT_WS_IDLE, AGENT_LOCK, now, issued>>
  /\ UNCHANGED agent

\* lines 444-445 and 570-571: AGENT_CLIENTS.get(client_id) / client_id not in AGENT_CLIENTS
UnknownClientNever(clients, c) == FALSE
UnknownClient(clients, c) == clients[c].status = "none"

\* POST /heartbeat, lines 441-451
Heartbeat(p, c, status, task) ==
  /\ Startable(p)
  /\ IF UnknownClient(AGENT_CLIENTS, c)
     THEN /\ proc' = [proc EXCEPT ![p] = [FreeProc EXCEPT !.kind = "heartbeat", !.pc = "return",
                                            !.client_id = c, !.task_id = task, !.status = status,
                                            !.resp = Resp(404, None, 0)]]
          /\ UNCHANGED AGENT_CLIENTS
     ELSE /\ AGENT_CLIENTS' = SetClient(AGENT_CLIENTS, c, status, task)
          /\ proc' = [proc EXCEPT ![p] = [FreeProc EXCEPT !.kind = "heartbeat", !.pc = "return",
                                            !.client_id = c, !.task_id = task, !.status = status,
                                            !.resp = Resp(200, None, 0)]]
  /\ cur' = p
  /\ UNCHANGED <<AGENT_PENDING_TASKS, AGENT_RUNNING_TASKS, AGENT_RESULTS,
                 AGENT_WS_CONNECTIONS, AGENT_WS_IDLE, AGENT_LOCK, now, issued>>
  /\ UNCHANGED agent

\* lines 466 and 544: pending = len(AGENT_PENDING_TASKS), taken right after the append
PendingCountStale(q) == Len(q) - 1
PendingCount(q) == Len(q)

\* POST /tasks/enqueue and /tasks/enqueue/upload, lines 454-468 and 532-546;
\* the task id is a fresh one (uuid4, or supplied and not used before)
EnqueueTask(p, limit) ==
  /\ Startable(p)
  /\ issued < limit
  /\ LET task_id == issued + 1 IN
     /\ AGENT_PENDING_TASKS' = AppendRight(AGENT_PENDING_TASKS, task_id)
     /\ proc' = [proc EXCEPT ![p] = [FreeProc EXCEPT
                   !.kind = "enqueue", !.pc = "dispatch_lock", !.ret = "done",
                   !.task_id = task_id,
                   !.resp = Resp(200, task_id, PendingCount(AGENT_PENDING_TASKS'))]]
     /\ issued' = task_id
  /\ cur' = p
  /\ UNCHANGED <<AGENT_RUNNING_TASKS, AGENT_CLIENTS, AGENT_RESULTS, AGENT_WS_CONNECTIONS,
                 AGENT_WS_IDLE, AGENT_LOCK, now>>
  /\ UNCHANGED agent

\* lines 457-458: neither zip_url nor zip_base64
EnqueueRejected(p) ==
  /\ Startable(p)
  /\ proc' = [proc EXCEPT ![p] = [FreeProc EXCEPT !.kind = "enqueue", !.pc = "return",
                                    !.resp = Resp(400, None, 0)]]
  /\ cur' = p
  /\ UNCHANGED <<shared, AGENT_LOCK, now, issued>>
  /\ UNCHANGED agent

\* POST /task_result, lines 580-584, with _record_task_result's lock section
TaskResult(p, c, t, status) ==
  /\ Startable(p)
  /\ AGENT_RESULTS' = RecordResults(AGENT_RESULTS, c, t, status)
  /\ AGENT_RUNNING_TASKS' = RecordRunning(AGENT_RUNNING_TASKS, t)
  /\ AGENT_CLIENTS' = SetClient(AGENT_CLIENTS, c, "idle", None)
  /\ AGENT_WS_IDLE' = RecordIdle(AGENT_WS_IDLE, AGENT_WS_CONNECTIONS, AGENT_CLIENTS, c)
  /\ proc' = [proc EXCEPT ![p] = [FreeProc EXCEPT
                !.kind = "result", !.pc = "dispatch_lock", !.ret = "done",
                !.client_id = c, !.task_id = t, !.status = status,
                !.resp = Resp(200, t, 0)]]
  /\ cur' = p
  /\ UNCHANGED <<AGENT_PENDING_TASKS, AGENT_WS_CONNECTIONS, AGENT_LOCK, now, issued>>
  /\ UNCHANGED agent

\* the handler function returns: the response goes out and the handler is gone
HttpReturn(p) ==
  /\ Running(p) /\ proc[p].pc = "return"
  /\ proc' = [proc EXCEPT ![p] = FreeProc]
  /\ cur' = 0
  /\ UNCHANGED <<shared, AGENT_LOCK, now, issued>>
  /\ UNCHANGED agent

\* ---------------------------------------------------------------- requests without the token
\* (AGENT_TOKEN is set, line 49; token_ok: the request carries "Bearer <AGENT_TOKEN>")
AuthKinds == {"register", "heartbeat", "fetch", "result", "enqueue"}

\* lines 200-205: _require_agent_auth when a token is configured; 0: it returns
RequireAgentAuth(token_ok) == IF token_ok THEN 0 ELSE 401

\* the first statement that raises in each HTTP handler when the token is missing or
\* wrong: lines 301, 443, 456, 582 (auth first), and lines 569-573 of fetch_task
\* (the registry lookup comes before the auth check)
UnauthorizedCode(kind, clients, c) ==
  IF kind = "fetch" /\ UnknownClient(clients, c) THEN 404 ELSE RequireAgentAuth(FALSE)

Unauthorized(p, kind, c) ==
  /\ Startable(p)
  /\ proc' = [proc EXCEPT ![p] = [FreeProc EXCEPT
                !.kind = kind, !.pc = "return", !.client_id = c, !.token_ok = FALSE,
                !.resp = Resp(UnauthorizedCode(kind, AGENT_CLIENTS, c), None, 0)]]
  /\ cur' = p
  /\ UNCHANGED <<shared, AGENT_LOCK, now, issued>>
  /\ UNCHANGED agent

\* lines 324-339: a push connection with the token in neither header nor query is
\* closed with code 4401 before it is accepted
WsUnauthorized(p) ==
  /\ Startable(p)
  /\ proc' = [proc EXCEPT ![p] = [FreeProc EXCEPT
                !.kind = "ws", !.pc = "return", !.token_ok = FALSE,
                !.resp = Resp(4401, None, 0)]]
  /\ cur' = p
  /\ UNCHANGED <<shared, AGENT_LOCK, now, issued>>
  /\ UNCHANGED agent

\* ---------------------------------------------------------------- long-poll fetch
\* line 550
Deadline(t0, timeout) == t0 + Max(timeout, 0)
\* line 563: give up after an empty check
GiveUpByClock(timeout, t, deadline) == t > deadline
GiveUpEarly(timeout, t, deadline) == timeout <= 0 \/ t + 1 >= deadline
GiveUp(timeout, t, deadline) == timeout <= 0 \/ t >= deadline

\* GET /task, lines 568-574 and 550
FetchTask(p, c, timeout) ==
  /\ Startable(p)
  /\ Deadline(now, timeout) <= MaxTime
  /\ IF UnknownClient(AGENT_CLIENTS, c)
     THEN /\ proc' = [proc EXCEPT ![p] = [FreeProc EXCEPT !.kind = "fetch", !.pc = "return",
                                            !.client_id = c, !.resp = Resp(404, None, 0)]]
          /\ cur' = p
     ELSE /\ proc' = [proc EXCEPT ![p] = [FreeProc EXCEPT
                        !.kind = "fetch", !.pc = "pop_check", !.client_id = c,
                        !.timeout = timeout, !.deadline = Deadline(now, timeout)]]
          /\ cur' = p
  /\ UNCHANGED <<shared, AGENT_LOCK, now, issued>>
  /\ UNCHANGED agent

\* lines 552-565 and 575-577: one round of _pop_agent_task's loop
PopCheck(p) ==
  /\ Running(p) /\ proc[p].pc = "pop_check" /\ AGENT_LOCK = 0
  /\ IF AGENT_PENDING_TASKS # <<>>
     THEN LET task_id == Head(AGENT_PENDING_TASKS) IN
          /\ AGENT_PENDING_TASKS' = Tail(AGENT_PENDING_TASKS)
          /\ AGENT_RUNNING_TASKS' = RunSet(AGENT_RUNNING_TASKS, task_id, proc[p].client_id, "none")
          /\ proc' = [proc EXCEPT ![p] = Finished([@ EXCEPT !.task_id = task_id,
                                                            !.resp = Resp(200, task_id, 0)])]
          /\ cur' = p
     ELSE /\ UNCHANGED <<AGENT_PENDING_TASKS, AGENT_RUNNING_TASKS>>
          /\ IF GiveUp(proc[p].timeout, now, proc[p].deadline)
             THEN /\ proc' = [proc EXCEPT ![p] = Finished([@ EXCEPT !.resp = Resp(204, None, 0)])]
                  /\ cur' = p
             ELSE /\ proc' = [proc EXCEPT ![p] = [@ EXCEPT !.pc = "sleep", !.wake = now + 1]]
                  /\ cur' = 0
  /\ UNCHANGED <<AGENT_CLIENTS, AGENT_RESULTS, AGENT_WS_CONNECTIONS, AGENT_WS_IDLE,
                 AGENT_LOCK, now, issued>>
  /\ UNCHANGED agent

\* line 565: asyncio.sleep(1) is over
Wake(p) ==
  /\ Idle /\ proc[p].pc = "sleep" /\ now >= proc[p].wake
  /\ proc' = [proc EXCEPT ![p].pc = "pop_check"]
  /\ cur' = p
  /\ UNCHANGED <<shared, AGENT_LOCK, now, issued>>
  /\ UNCHANGED agent

\* time passes; only a sleeping long-poll reads the clock
Tick ==
  /\ cur = 0 /\ now < MaxTime
  /\ \E p \in HttpProcs : proc[p].pc = "sleep"
  /\ now' = now + 1
  /\ UNCHANGED <<shared, AGENT_LOCK, proc, cur, issued>>
  /\ UNCHANGED agent

\* ---------------------------------------------------------------- the worker (agent.py)
\* The worker process is a program of its own; what the server sends it (task packets
\* on the websocket, answers to GET /task) are its inputs.
server == <<AGENT_PENDING_TASKS, AGENT_RUNNING_TASKS, AGENT_CLIENTS, AGENT_RESULTS,
            AGENT_LOCK, AGENT_WS_CONNECTIONS, AGENT_WS_IDLE, proc, cur, now, issued>>

\* line 28: RZAPPLY_AGENT_WORKERS defaults to 1
Workers == 1

\* lines 368-369: backoff = 1, max_backoff = 60
initial_backoff == 1
max_backoff == 60

\* the state of TaskAgent after __init__, before run()
\*   mode     "start", then "push" (websocket thread) or "poll" (_task_loop)
\*   sent     number of tasks the server has sent to this worker so far
\*   inbox    task packets on the websocket that the worker has not read yet
\*   acked    tasks the worker answered with task_ack accepted
\*   queue    work items of EXECUTOR that no worker thread has taken yet
\*   stage    per task, its place in _handle_task: "none", "entered" (called),
\*            "running" (status set, inside the try block), "ran_ok" / "ran_raised" (the
\*            try block is over), "reported" (_submit_result returned), "handled"
\*            (_handle_task returned), "raised" (_handle_task left by an exception)
\*   result   per task: the status handed to _submit_result ("none": not yet)
\*   posts    per task: number of calls of _submit_result
\*   posted   tasks whose POST /task_result got through
\*   status, current   self._status and self._current_task_id
\*   ws       place of _ws_client_loop: "off" (not started), "loop" (at the while test),
\*            "connecting", "open" (inside async with), "except" (in the handler),
\*            "sleep" (in asyncio.sleep(backoff)), "ended" (the loop is left)
\*   backoff  the local variable backoff of _ws_client_loop
\*   stop     self._stop_event is set
\*   loop     position of _task_loop: "off", "get" (about to fetch), "wait" (GET /task
\*            outstanding), "handle" (inside its call of _handle_task)
AgentInit ==
  [mode |-> "start", sent |-> 0, inbox |-> <<>>, acked |-> {}, queue |-> <<>>,
   stage |-> [t \in 1..MaxTasks |-> "none"], result |-> [t \in 1..MaxTasks |-> "none"],
   posts |-> [t \in 1..MaxTasks |-> 0], posted |-> {}, status |-> "idle",
   current |-> None, loop |-> "off", ws |-> "off", backoff |-> initial_backoff,
   stop |-> FALSE]

\* tasks inside _handle_task
InHandleTask == {"entered", "running", "ran_ok", "ran_raised", "reported"}
Executing(a) == {t \in 1..MaxTasks : a.stage[t] \in InHandleTask}

\* line 28: a thread of the ThreadPoolExecutor is free to take the next work item
WorkerFree(a) == Cardinality(Executing(a)) < Workers

\* lines 92-118: run(): the register answer decides between the websocket thread
\* and the long-poll loop
AgentRun(supports_ws) ==
  /\ agent.mode = "start"
  /\ agent' = [agent EXCEPT !.mode = IF supports_ws THEN "push" ELSE "poll",
                            !.loop = IF supports_ws THEN "off" ELSE "get",
                            !.ws = IF supports_ws THEN "loop" ELSE @,
                            !.backoff = initial_backoff]
  /\ UNCHANGED server

\* lines 108-124: run() sets the stop event (Ctrl+C, or its finally clause)
AgentStop ==
  /\ agent.mode = "push" /\ ~agent.stop
  /\ agent' = [agent EXCEPT !.stop = TRUE]
  /\ UNCHANGED server

\* line 385: while not self._stop_event.is_set()
AgentWsLoopTest ==
  /\ agent.ws = "loop"
  /\ agent' = [agent EXCEPT !.ws = IF agent.stop THEN "ended" ELSE "connecting"]
  /\ UNCHANGED server

\* lines 388-390: websockets.connect succeeds: backoff = 1; or it raises
AgentWsConnect(ok) ==
  /\ agent.ws = "connecting"
  /\ agent' = IF ok THEN [agent EXCEPT !.ws = "open", !.backoff = initial_backoff]
                    ELSE [agent EXCEPT !.ws = "except"]
  /\ UNCHANGED server

\* lines 401-465: the connection ends: async for ends quietly (hb_task.cancel(), back
\* to the while test without a sleep) or something inside async with raises; packets
\* not yet read are gone with the connection
AgentWsClosed(raised) ==
  /\ agent.ws = "open"
  /\ agent' = [agent EXCEPT !.ws = IF raised THEN "except" ELSE "loop", !.inbox = <<>>]
  /\ UNCHANGED server

\* lines 466-469: except Exception: break when the stop event is set, else sleep
AgentWsExcept ==
  /\ agent.ws = "except"
  /\ agent' = [agent EXCEPT !.ws = IF agent.stop THEN "ended" ELSE "sleep"]
  /\ UNCHANGED server

\* line 470: backoff = min(max_backoff, backoff * 2)
NextBackoffUncapped(backoff) == backoff * 2
NextBackoff(backoff) == IF max_backoff < backoff * 2 THEN max_backoff ELSE backoff * 2

\* lines 469-470: asyncio.sleep(backoff) is over, the backoff is doubled
AgentWsSlept ==
  /\ agent.ws = "sleep"
  /\ agent' = [agent EXCEPT !.ws = "loop", !.backoff = NextBackoff(agent.backoff)]
  /\ UNCHANGED server

\* line 406: the server has sent a task packet on the websocket
AgentTaskPacket ==
  /\ agent.mode = "push" /\ agent.sent < MaxTasks
  /\ agent' = [agent EXCEPT !.sent = @ + 1, !.inbox = Append(@, agent.sent + 1)]
  /\ UNCHANGED server

\* lines 416-437: a task packet is read: task_ack accepted, then EXECUTOR.submit
AgentWsTask ==
  /\ agent.mode = "push" /\ agent.inbox # <<>>
  /\ agent' = [agent EXCEPT !.inbox = Tail(@),
                            !.acked = @ \cup {Head(agent.inbox)},
                            !.queue = Append(@, Head(agent.inbox))]
  /\ UNCHANGED server

\* line 28 and lines 196-200: a free thread of EXECUTOR takes the oldest work item
\* and enters _handle_task
AgentWorkerStart ==
  /\ agent.queue # <<>> /\ WorkerFree(agent)
  /\ agent' = [agent EXCEPT !.queue = Tail(@),
                            !.stage[Head(agent.queue)] = "entered"]
  /\ UNCHANGED server

\* lines 171-177: _task_loop issues GET /task
AgentFetch ==
  /\ agent.mode = "poll" /\ agent.loop = "get"
  /\ agent' = [agent EXCEPT !.loop = "wait"]
  /\ UNCHANGED server

\* lines 171-193: after the answer: handle the task in the loop itself, or go round
\* again (no task, a request error, a malformed payload)
AfterAnswer(answer) == IF answer = "task" THEN "handle" ELSE "get"

\* lines 178-193: the answer to GET /task
AgentFetchAnswer(answer) ==
  /\ agent.mode = "poll" /\ agent.loop = "wait"
  /\ answer = "task" => agent.sent < MaxTasks
  /\ agent' = IF answer = "task"
              THEN [agent EXCEPT !.sent = @ + 1, !.stage[agent.sent + 1] = "entered",
                                 !.loop = AfterAnswer(answer)]
              ELSE [agent EXCEPT !.loop = AfterAnswer(answer)]
  /\ UNCHANGED server

\* lines 196-200: the run directory is made and the status set to running; mkdir
\* stands outside the try block, so when it raises (a task id that is no usable
\* file name) _handle_task is left by the exception: the thread of EXECUTOR drops it,
\* _task_loop and with it the process end
AgentEnter(t, mkdir_ok) ==
  /\ agent.stage[t] = "entered"
  /\ agent' = IF mkdir_ok
              THEN [agent EXCEPT !.stage[t] = "running", !.status = "running", !.current = t]
              ELSE [agent EXCEPT !.stage[t] = "raised",
                                 !.loop = IF agent.mode = "poll" THEN "dead" ELSE @]
  /\ UNCHANGED server

\* lines 216-253: the try block (archive, loading, upload) ends or raises; the
\* except clause turns every Exception into the status "failed"
ResultStatus(ran_ok) == IF ran_ok THEN "success" ELSE "failed"

AgentExecute(t, ran_ok) ==
  /\ agent.stage[t] = "running"
  /\ agent' = [agent EXCEPT !.stage[t] = IF ran_ok THEN "ran_ok" ELSE "ran_raised",
                            !.result[t] = ResultStatus(ran_ok)]
  /\ UNCHANGED server

\* lines 255-262 and 285-312: _submit_result: the POST gets through, or its
\* exception is logged and dropped
AgentSubmitResult(t, ok) ==
  /\ agent.stage[t] \in {"ran_ok", "ran_raised"}
  /\ agent' = [agent EXCEPT !.stage[t] = "reported",
                            !.posts[t] = @ + 1,
                            !.posted = IF ok THEN @ \cup {t} ELSE @]
  /\ UNCHANGED server

\* line 263 and the return of _handle_task: the status is idle again, the thread of
\* EXECUTOR is free again, or _task_loop goes round again
AgentHandled(t) ==
  /\ agent.stage[t] = "reported"
  /\ agent' = [agent EXCEPT !.stage[t] = "handled",
                            !.status = "idle", !.current = None,
                            !.loop = IF agent.mode = "poll" THEN "get" ELSE @]
  /\ UNCHANGED server

\* ---------------------------------------------------------------- state after import
Init ==
  /\ AGENT_PENDING_TASKS = <<>>
  /\ AGENT_RUNNING_TASKS = <<>>
  /\ AGENT_CLIENTS = [c \in Clients |-> NoClient]
  /\ AGENT_RESULTS = [t \in Tasks |-> NoResult]
  /\ AGENT_LOCK = 0
  /\ AGENT_WS_CONNECTIONS = [c \in Clients |-> 0]
  /\ AGENT_WS_IDLE = {}
  /\ proc = [p \in Procs |-> FreeProc]
  /\ cur = 0
  /\ now = 0
  /\ issued = 0
  /\ agent = AgentInit

\* ---------------------------------------------------------------- push connections
OwnSends == {"send_register_ack", "send_heartbeat_ack", "send_heartbeat_ack_idle",
             "send_result_ack", "send_error"}

\* lines 436-438: the finally clause: drop the connection's client, then the handler ends
FinallyAlwaysDrop(pr) ==
  [pr EXCEPT !.pc = "drop_lock", !.ret = "done",
             !.stack = <<[NoFrame EXCEPT !.fn = "drop", !.client_id = pr.client_id]>>]
Finally(pr) ==
  IF pr.client_id = None THEN Finished(pr)
  ELSE [pr EXCEPT !.pc = "drop_lock", !.ret = "done",
                  !.stack = <<[NoFrame EXCEPT !.fn = "drop", !.client_id = pr.client_id]>>]

\* lines 323-344: a connection is accepted and its handler awaits the first message
WsConnect(p) ==
  /\ Startable(p)
  /\ proc' = [proc EXCEPT ![p] = [FreeProc EXCEPT !.kind = "ws", !.pc = "wait_register"]]
  /\ UNCHANGED <<shared, AGENT_LOCK, cur, now, issued>>
  /\ UNCHANGED agent

\* lines 344 and 432-438: the first receive raises (the peer is gone, or the body is
\* no JSON): the handler ends without a client id
WsNotRegister(p) ==
  /\ Idle /\ proc[p].pc = "wait_register"
  /\ proc' = [proc EXCEPT ![p] = Finally(@)]
  /\ UNCHANGED <<shared, AGENT_LOCK, cur, now, issued>>
  /\ UNCHANGED agent

\* lines 345-353: the first message is no register packet, or its payload does not
\* validate: the handler starts closing the connection with code 4400
WsFirstNotRegister(p) ==
  /\ Idle /\ proc[p].pc = "wait_register"
  /\ proc' = [proc EXCEPT ![p] = [@ EXCEPT !.pc = "close_4400", !.resp = Resp(4400, None, 0)]]
  /\ UNCHANGED <<shared, AGENT_LOCK, cur, now, issued>>
  /\ UNCHANGED agent

\* lines 346-347, 352-353 and 436-438: websocket.close is over (or raised); return
\* through the finally clause
WsClosed(p) ==
  /\ Idle /\ proc[p].pc = "close_4400"
  /\ proc' = [proc EXCEPT ![p] = Finally(@)]
  /\ cur' = NextCur(proc'[p], p)
  /\ UNCHANGED <<shared, AGENT_LOCK, now, issued>>
  /\ UNCHANGED agent

\* lines 355-380: the register packet; the handler then awaits the send of register_ack
WsRegister(p, c) ==
  /\ Idle /\ proc[p].pc = "wait_register"
  /\ c = None => Clients \ Registered # {}
  /\ LET client_id == IF c # None THEN c ELSE FreshClient IN
     /\ AGENT_CLIENTS' = [AGENT_CLIENTS EXCEPT ![client_id] = RegisterRecord]
     /\ AGENT_WS_CONNECTIONS' = [AGENT_WS_CONNECTIONS EXCEPT ![client_id] = p]
     /\ AGENT_WS_IDLE' = AGENT_WS_IDLE \cup {client_id}
     /\ proc' = [proc EXCEPT ![p] = [@ EXCEPT !.pc = "send_register_ack",
                                              !.client_id = client_id]]
  /\ UNCHANGED <<AGENT_PENDING_TASKS, AGENT_RUNNING_TASKS, AGENT_RESULTS,
                 AGENT_LOCK, cur, now, issued>>
  /\ UNCHANGED agent

\* a send on the handler's own socket returned: lines 381, 400-401, 424, 421, 431
WsSendOk(p) ==
  /\ Idle /\ proc[p].pc \in OwnSends
  /\ IF proc[p].pc \in {"send_register_ack", "send_heartbeat_ack_idle"}
     THEN /\ proc' = [proc EXCEPT ![p] = [@ EXCEPT !.pc = "dispatch_lock", !.ret = "ws_recv"]]
          /\ cur' = p
     ELSE /\ proc' = [proc EXCEPT ![p] = [@ EXCEPT !.pc = "ws_recv", !.task_id = None,
                                                   !.status = "none", !.msg = "none",
                                                   !.payload_client = None]]
          /\ UNCHANGED cur
  /\ UNCHANGED <<shared, AGENT_LOCK, now, issued>>
  /\ UNCHANGED agent

\* a send on the handler's own socket raised: lines 432-438
WsSendFail(p) ==
  /\ Idle /\ proc[p].pc \in OwnSends
  /\ Len(AGENT_PENDING_TASKS) < MaxPending
  /\ proc' = [proc EXCEPT ![p] = Finally(@)]
  /\ cur' = p
  /\ UNCHANGED <<shared, AGENT_LOCK, now, issued>>
  /\ UNCHANGED agent

\* receive_json raised WebSocketDisconnect (the peer closed): lines 384, 432-433, 436-438
WsDisconnect(p) ==
  /\ Idle /\ proc[p].pc = "ws_recv"
  /\ Len(AGENT_PENDING_TASKS) < MaxPending
  /\ proc' = [proc EXCEPT ![p] = Finally(@)]
  /\ cur' = p
  /\ UNCHANGED <<shared, AGENT_LOCK, now, issued>>
  /\ UNCHANGED agent

\* lines 394-395: what a heartbeat packet writes; status "missing": the payload has no status
HeartbeatStatus(old, status) == IF status = "missing" THEN old ELSE status

\* lines 390-399: a heartbeat packet
WsHeartbeat(p, status, task) ==
  /\ Idle /\ proc[p].pc = "ws_recv"
  /\ LET client_id == proc[p].client_id IN
     /\ AGENT_CLIENTS' = SetClient(AGENT_CLIENTS, client_id,
                                   HeartbeatStatus(AGENT_CLIENTS[client_id].status, status), task)
     /\ AGENT_WS_IDLE' = IF AGENT_CLIENTS[client_id].status # "none" /\ status = "idle"
                         THEN AGENT_WS_IDLE \cup {client_id} ELSE AGENT_WS_IDLE
  /\ proc' = [proc EXCEPT ![p].pc = IF status = "idle" THEN "send_heartbeat_ack_idle"
                                    ELSE "send_heartbeat_ack"]
  /\ UNCHANGED <<AGENT_PENDING_TASKS, AGENT_RUNNING_TASKS, AGENT_RESULTS,
                 AGENT_WS_CONNECTIONS, AGENT_LOCK, cur, now, issued>>
  /\ UNCHANGED agent

\* lines 227-235: _mark_client_idle
MarkIdle(idle, conns, c) == IF conns[c] # 0 THEN idle \cup {c} ELSE idle

\* lines 402-414: task_ack with accepted = false: take the assignment back, requeue
\* it, mark the client idle, then dispatch
WsTaskRejected(p, t) ==
  /\ Idle /\ proc[p].pc = "ws_recv"
  /\ LET client_id == proc[p].client_id
         info == RunGet(AGENT_RUNNING_TASKS, t)
     IN /\ AGENT_RUNNING_TASKS' = RunPop(AGENT_RUNNING_TASKS, t)
        /\ AGENT_PENDING_TASKS' = IF info.task_id # None
                                  THEN AppendLeft(AGENT_PENDING_TASKS, t)
                                  ELSE AGENT_PENDING_TASKS
        /\ AGENT_WS_IDLE' = MarkIdle(AGENT_WS_IDLE, AGENT_WS_CONNECTIONS, client_id)
        /\ AGENT_CLIENTS' = SetClient(AGENT_CLIENTS, client_id, "idle", None)
  /\ proc' = [proc EXCEPT ![p] = [@ EXCEPT !.pc = "dispatch_lock", !.ret = "ws_recv",
                                           !.task_id = t]]
  /\ cur' = p
  /\ UNCHANGED <<AGENT_RESULTS, AGENT_WS_CONNECTIONS, AGENT_LOCK, now, issued>>
  /\ UNCHANGED agent

\* lines 385-386, 402-407, 425-429: a packet that is no dict, a task_ack that accepts
\* or names no task, a log packet: the loop goes on to the next receive
WsIgnored(p) ==
  /\ Idle /\ proc[p].pc = "ws_recv"
  /\ UNCHANGED vars
  /\ UNCHANGED agent

\* lines 416-417: the client id of the result: the payload's key "client_id" is
\* overwritten with the id the connection registered with
ResultClientFromPayload(conn_client, payload_client) ==
  IF payload_client # None THEN payload_client ELSE conn_client
ResultClient(conn_client, payload_client) == conn_client

\* lines 415-423: a result packet that validates; payload_client: what its payload
\* carries under "client_id" (None: nothing)
WsResultPacket(p, t, status, payload_client) ==
  /\ Idle /\ proc[p].pc = "ws_recv"
  /\ LET client_id == ResultClient(proc[p].client_id, payload_client) IN
     /\ AGENT_RESULTS' = RecordResults(AGENT_RESULTS, client_id, t, status)
     /\ AGENT_RUNNING_TASKS' = RecordRunning(AGENT_RUNNING_TASKS, t)
     /\ AGENT_CLIENTS' = SetClient(AGENT_CLIENTS, client_id, "idle", None)
     /\ AGENT_WS_IDLE' = RecordIdle(AGENT_WS_IDLE, AGENT_WS_CONNECTIONS, AGENT_CLIENTS, client_id)
  /\ proc' = [proc EXCEPT ![p] = [@ EXCEPT !.pc = "dispatch_lock", !.ret = "send_result_ack",
                                           !.task_id = t, !.status = status,
                                           !.payload_client = payload_client]]
  /\ cur' = p
  /\ UNCHANGED <<AGENT_PENDING_TASKS, AGENT_WS_CONNECTIONS, AGENT_LOCK, now, issued>>
  /\ UNCHANGED agent

\* lines 415-423: a result packet whose payload names no client
WsResult(p, t, status) == WsResultPacket(p, t, status, None)

\* the packets the handler has no use for: a type it does not know, a result whose
\* payload does not validate, a body that is no JSON
BadPackets == {"unknown", "bad_result", "unparseable"}

\* lines 418-422 and 430-431: a result packet that fails validation, or a packet of
\* unknown type: the handler sends an error packet
WsBadPacket(p, m) ==
  /\ Idle /\ proc[p].pc = "ws_recv"
  /\ m \in {"unknown", "bad_result"}
  /\ proc' = [proc EXCEPT ![p] = [@ EXCEPT !.pc = "send_error", !.msg = m]]
  /\ UNCHANGED <<shared, AGENT_LOCK, cur, now, issued>>
  /\ UNCHANGED agent

\* lines 384 and 434-438: the body of a message is no JSON: receive_json raises out of
\* the loop, the generic except clause prints, the finally clause drops the connection
WsUnparseable(p) ==
  /\ Idle /\ proc[p].pc = "ws_recv"
  /\ Len(AGENT_PENDING_TASKS) < MaxPending
  /\ proc' = [proc EXCEPT ![p] = Finally([@ EXCEPT !.msg = "unparseable"])]
  /\ cur' = p
  /\ UNCHANGED <<shared, AGENT_LOCK, now, issued>>
  /\ UNCHANGED agent

\* ---------------------------------------------------------------- the system
HeartbeatStatuses == Statuses
TaskIdsOrNone == Tasks \cup {None}
ResultStatuses == {"success", "failed"}

\* the steps inside _dispatch_tasks and _drop_ws_connection, whoever called them
DispatchSteps ==
  \/ \E p \in Procs : DispatchLock(p)
  \/ \E p \in Procs : DispatchWhile(p)
  \/ \E p \in Procs : DispatchFor(p)

DropSteps ==
  \/ \E p \in Procs : DropLock(p)
  \/ \E p \in Procs : DropRequeue(p)
  \/ \E p \in Procs : DropReturn(p)

\* every handler with every input
Next ==
  \/ DispatchSteps
  \/ DropSteps
  \/ \E p \in Procs : SendTaskOk(p)
  \/ \E p \in Procs : SendTaskFail(p)
  \/ \E p \in HttpProcs, c \in Clients \cup {None} : RegisterAgent(p, c)
  \/ \E p \in HttpProcs, c \in Clients, s \in HeartbeatStatuses, t \in TaskIdsOrNone :
        Heartbeat(p, c, s, t)
  \/ \E p \in HttpProcs : EnqueueTask(p, MaxTasks)
  \/ \E p \in HttpProcs : EnqueueRejected(p)
  \/ \E p \in HttpProcs, c \in Clients, t \in Tasks, s \in ResultStatuses :
        TaskResult(p, c, t, s)
  \/ \E p \in HttpProcs, c \in Clients, t \in (0 - 1)..MaxTimeout : FetchTask(p, c, t)
  \/ \E p \in Procs : HttpReturn(p)
  \/ \E p \in HttpProcs : PopCheck(p)
  \/ \E p \in HttpProcs : Wake(p)
  \/ Tick
  \/ \E p \in WsProcs : WsConnect(p)
  \/ \E p \in WsProcs : WsNotRegister(p)
  \/ \E p \in WsProcs, c \in Clients \cup {None} : WsRegister(p, c)
  \/ \E p \in WsProcs : WsSendOk(p)
  \/ \E p \in WsProcs : WsSendFail(p)
  \/ \E p \in WsProcs : WsDisconnect(p)
  \/ \E p \in WsProcs, s \in HeartbeatStatuses \cup {"missing"}, t \in TaskIdsOrNone :
        WsHeartbeat(p, s, t)
  \/ \E p \in WsProcs, t \in Tasks : WsTaskRejected(p, t)
  \/ \E p \in WsProcs : WsIgnored(p)
  \/ \E p \in WsProcs, t \in Tasks, s \in ResultStatuses : WsResult(p, t, s)
  \/ \E p \in WsProcs, m \in BadPackets : WsBadPacket(p, m)
  \/ \E p \in WsProcs : WsUnparseable(p)
  \/ \E p \in WsProcs : WsFirstNotRegister(p)
  \/ \E p \in WsProcs : WsClosed(p)
  \/ \E p \in HttpProcs, k \in AuthKinds, c \in Clients : Unauthorized(p, k, c)
  \/ \E p \in WsProcs : WsUnauthorized(p)

Spec == Init /\ [][Next]_vars

\* Push transport under failure: agents connect and register, tasks are enqueued
\* (one request at a time), sends succeed or fail, connections close.
NextPush ==
  \/ DispatchSteps
  \/ DropSteps
  \/ \E p \in Procs : SendTaskOk(p)
  \/ \E p \in Procs : SendTaskFail(p)
  \/ \E p \in OneHttp : EnqueueTask(p, PushTasks)
  \/ \E p \in OneHttp : HttpReturn(p)
  \/ \E p \in WsProcs : WsConnect(p)
  \/ \E p \in WsProcs : WsNotRegister(p)
  \/ \E p \in WsProcs, c \in Clients : WsRegister(p, c)
  \/ \E p \in WsProcs : WsSendOk(p)
  \/ \E p \in WsProcs : WsSendFail(p)
  \/ \E p \in WsProcs : WsDisconnect(p)

SpecPush == Init /\ [][NextPush]_vars

\* The registry under HTTP register and heartbeat with any payload, next to
\* enqueue, long-poll fetch and result (one request at a time).
NextRegistry ==
  \/ DispatchSteps
  \/ \E p \in OneHttp, c \in Clients \cup {None} : RegisterAgent(p, c)
  \/ \E p \in OneHttp, c \in Clients, s \in HeartbeatStatuses, t \in 0..PollTasks :
        Heartbeat(p, c, s, t)
  \/ \E p \in OneHttp : EnqueueTask(p, PollTasks)
  \/ \E p \in OneHttp : EnqueueRejected(p)
  \/ \E p \in OneHttp, c \in Clients, t \in 1..PollTasks, s \in ResultStatuses :
        TaskResult(p, c, t, s)
  \/ \E p \in OneHttp, c \in Clients : FetchTask(p, c, 0)
  \/ \E p \in OneHttp : PopCheck(p)
  \/ \E p \in OneHttp : HttpReturn(p)

SpecRegistry == Init /\ [][NextRegistry]_vars

\* Long-poll transport: agents register, tasks are enqueued while fetches wait,
\* an agent posts results for the tasks it was handed.
NextPoll ==
  \/ DispatchSteps
  \/ \E p \in HttpProcs, c \in Clients : RegisterAgent(p, c)
  \/ \E p \in HttpProcs : EnqueueTask(p, PollTasks)
  \/ \E p \in HttpProcs, c \in Clients, t \in (0 - 1)..MaxTimeout : FetchTask(p, c, t)
  \/ \E p \in HttpProcs, c \in Clients, t \in 1..PollTasks, s \in ResultStatuses :
        /\ RunGet(AGENT_RUNNING_TASKS, t).client_id = c
        /\ TaskResult(p, c, t, s)
  \/ \E p \in HttpProcs : HttpReturn(p)
  \/ \E p \in HttpProcs : PopCheck(p)
  \/ \E p \in HttpProcs : Wake(p)
  \/ Tick

SpecPoll == Init /\ [][NextPoll]_vars

\* The event loop resumes every handler that is ready (a sleep that is over,
\* the next step of the handler it is running), and time passes.
FairPoll ==
  /\ SF_vars(Tick)
  /\ \A p \in HttpProcs :
       /\ SF_vars(Wake(p))
       /\ WF_vars(PopCheck(p))
       /\ WF_vars(HttpReturn(p))
       /\ WF_vars(DispatchLock(p)) /\ WF_vars(DispatchWhile(p)) /\ WF_vars(DispatchFor(p))

SpecPollFair == Init /\ [][NextPoll]_vars /\ FairPoll

\* Result reconciliation: a push agent connects, tasks are enqueued and delivered,
\* results for any task arrive as push packets and over POST /task_result.
NextResult ==
  \/ DispatchSteps
  \/ \E p \in Procs : SendTaskOk(p)
  \/ \E p \in OneHttp : EnqueueTask(p, PushTasks)
  \/ \E p \in OneHttp, c \in Clients, t \in 1..PushTasks, s \in ResultStatuses :
        TaskResult(p, c, t, s)
  \/ \E p \in OneHttp : HttpReturn(p)
  \/ \E p \in OneWs : WsConnect(p)
  \/ \E p \in OneWs, c \in Clients : WsRegister(p, c)
  \/ \E p \in OneWs : WsSendOk(p)
  \/ \E p \in OneWs, t \in 1..PushTasks, s \in ResultStatuses : WsResult(p, t, s)

SpecResult == Init /\ [][NextResult]_vars

\* The scenario of two idle push agents and three tasks: both agents are
\* connected and registered, each on its own connection, nothing is queued.
ScenarioAgents == {1, 2}
InitScenario ==
  /\ AGENT_PENDING_TASKS = <<>>
  /\ AGENT_RUNNING_TASKS = <<>>
  /\ AGENT_CLIENTS = [c \in Clients |-> IF c \in ScenarioAgents THEN RegisterRecord ELSE NoClient]
  /\ AGENT_RESULTS = [t \in Tasks |-> NoResult]
  /\ AGENT_LOCK = 0
  /\ AGENT_WS_CONNECTIONS = [c \in Clients |-> IF c \in ScenarioAgents THEN c ELSE 0]
  /\ AGENT_WS_IDLE = ScenarioAgents
  /\ proc = [p \in Procs |-> IF p \in ScenarioAgents
                             THEN [FreeProc EXCEPT !.kind = "ws", !.pc = "ws_recv", !.client_id = p]
                             ELSE FreeProc]
  /\ cur = 0
  /\ now = 0
  /\ issued = 0
  /\ agent = AgentInit

\* three tasks are enqueued and delivered; once all three are in, the agents
\* report: the result of a task they hold (as a push packet or over HTTP), or an
\* idle heartbeat
NextScenario ==
  \/ DispatchSteps
  \/ \E p \in Procs : SendTaskOk(p)
  \/ \E p \in OneHttp : EnqueueTask(p, 3)
  \/ \E p \in OneHttp : HttpReturn(p)
  \/ \E p \in OneHttp, c \in Clients, t \in 1..3, s \in ResultStatuses :
        /\ issued = 3 /\ RunGet(AGENT_RUNNING_TASKS, t).client_id = c
        /\ TaskResult(p, c, t, s)
  \/ \E p \in WsProcs, t \in 1..3, s \in ResultStatuses :
        /\ issued = 3 /\ RunGet(AGENT_RUNNING_TASKS, t).client_id = proc[p].client_id
        /\ WsResult(p, t, s)
  \/ \E p \in WsProcs : issued = 3 /\ WsHeartbeat(p, "idle", None)
  \/ \E p \in WsProcs : WsSendOk(p)

SpecScenario == InitScenario /\ [][NextScenario]_vars

\* Rejection: push agents connect, tasks are enqueued and delivered, an agent
\* answers a task it holds with task_ack accepted = false.
NextReject ==
  \/ DispatchSteps
  \/ \E p \in Procs : SendTaskOk(p)
  \/ \E p \in OneHttp : EnqueueTask(p, PushTasks)
  \/ \E p \in OneHttp : HttpReturn(p)
  \/ \E p \in WsProcs : WsConnect(p)
  \/ \E p \in WsProcs, c \in Clients : WsRegister(p, c)
  \/ \E p \in WsProcs : WsSendOk(p)
  \/ \E p \in WsProcs, t \in 1..PushTasks :
        /\ RunGet(AGENT_RUNNING_TASKS, t).client_id = proc[p].client_id
        /\ WsTaskRejected(p, t)

SpecReject == Init /\ [][NextReject]_vars

\* the agent's side of a delivery (agent.py, _ws_client_loop and _handle_task): an
\* agent reports a task only once the task packet has reached it, and the coordinator
\* still has the task assigned to it
Delivered(c, t) ==
  /\ RunGet(AGENT_RUNNING_TASKS, t).client_id = c
  /\ \A q \in Procs : \A k \in 1..Len(proc[q].stack) :
       LET f == proc[q].stack[k] IN
       \A i \in 1..Len(f.assignments) : i >= f.index => f.assignments[i] # <<c, t>>

\* Failure reports: push agents connect, tasks are enqueued and delivered, a send
\* may fail, and an agent posts the result of a task that was delivered to it.
NextFailed ==
  \/ DispatchSteps
  \/ DropSteps
  \/ \E p \in Procs : SendTaskOk(p)
  \/ \E p \in Procs : SendTaskFail(p)
  \/ \E p \in OneHttp : EnqueueTask(p, PushTasks)
  \/ \E p \in OneHttp, c \in Clients, t \in 1..PushTasks, s \in ResultStatuses :
        /\ Delivered(c, t)
        /\ TaskResult(p, c, t, s)
  \/ \E p \in OneHttp : HttpReturn(p)
  \/ \E p \in WsProcs : WsConnect(p)
  \/ \E p \in WsProcs, c \in Clients : WsRegister(p, c)
  \/ \E p \in WsProcs : WsSendOk(p)

SpecFailed == Init /\ [][NextFailed]_vars

\* A configured token: requests that carry it register, enqueue, fetch and report as
\* before; requests and push connections without it are turned away.
NextAuth ==
  \/ DispatchSteps
  \/ \E p \in OneHttp, c \in Clients : RegisterAgent(p, c)
  \/ \E p \in OneHttp : EnqueueTask(p, PollTasks)
  \/ \E p \in OneHttp, c \in Clients : FetchTask(p, c, 0)
  \/ \E p \in OneHttp : PopCheck(p)
  \/ \E p \in OneHttp, c \in Clients, t \in 1..PollTasks, s \in ResultStatuses :
        /\ RunGet(AGENT_RUNNING_TASKS, t).client_id = c
        /\ TaskResult(p, c, t, s)
  \/ \E p \in OneHttp, k \in AuthKinds, c \in Clients : Unauthorized(p, k, c)
  \/ \E p \in OneWs : WsUnauthorized(p)
  \/ \E p \in OneHttp \cup OneWs : HttpReturn(p)

SpecAuth == Init /\ [][NextAuth]_vars

\* The push protocol under misuse: connections whose first message is no register
\* packet, and registered agents that send packets the handler has no use for, next
\* to enqueues and deliveries.
NextProtocol ==
  \/ DispatchSteps
  \/ DropSteps
  \/ \E p \in Procs : SendTaskOk(p)
  \/ \E p \in OneHttp : EnqueueTask(p, PushTasks)
  \/ \E p \in OneHttp : HttpReturn(p)
  \/ \E p \in WsProcs : WsConnect(p)
  \/ \E p \in WsProcs : WsNotRegister(p)
  \/ \E p \in WsProcs : WsFirstNotRegister(p)
  \/ \E p \in WsProcs : WsClosed(p)
  \/ \E p \in WsProcs, c \in Clients : WsRegister(p, c)
  \/ \E p \in WsProcs : WsSendOk(p)
  \/ \E p \in WsProcs, m \in BadPackets : WsBadPacket(p, m)
  \/ \E p \in WsProcs : WsUnparseable(p)

SpecProtocol == Init /\ [][NextProtocol]_vars

\* Registration: agents register over POST /register and over push connections, with
\* an id of their own or without one, and report their state in heartbeats.
NextRegister ==
  \/ DispatchSteps
  \/ \E p \in OneHttp, c \in Clients \cup {None} : RegisterAgent(p, c)
  \/ \E p \in OneHttp, c \in Clients, s \in HeartbeatStatuses, t \in 0..1 :
        Heartbeat(p, c, s, t)
  \/ \E p \in OneHttp : HttpReturn(p)
  \/ \E p \in WsProcs : WsConnect(p)
  \/ \E p \in WsProcs, c \in Clients \cup {None} : WsRegister(p, c)
  \/ \E p \in WsProcs : WsSendOk(p)

SpecRegister == Init /\ [][NextRegister]_vars

\* The queue under every way of putting a task back: push agents connect, tasks are
\* enqueued and delivered, sends fail, connections close, an agent rejects a task it
\* holds.
NextOrder ==
  \/ DispatchSteps
  \/ DropSteps
  \/ \E p \in Procs : SendTaskOk(p)
  \/ \E p \in Procs : SendTaskFail(p)
  \/ \E p \in OneHttp : EnqueueTask(p, PushTasks)
  \/ \E p \in OneHttp : HttpReturn(p)
  \/ \E p \in WsProcs : WsConnect(p)
  \/ \E p \in WsProcs, c \in Clients : WsRegister(p, c)
  \/ \E p \in WsProcs : WsSendOk(p)
  \/ \E p \in WsProcs : WsDisconnect(p)
  \/ \E p \in WsProcs, t \in 1..PushTasks :
        /\ RunGet(AGENT_RUNNING_TASKS, t).client_id = proc[p].client_id
        /\ Len(AGENT_PENDING_TASKS) < MaxPending
        /\ WsTaskRejected(p, t)

SpecOrder == Init /\ [][NextOrder]_vars

\* Completion: two push agents, each on its own connection handler and under its own
\* id. The good agent reports a result for every task delivered to it; the other
\* agent answers every task delivered to it as well, but as it likes: with a result,
\* with task_ack accepted = false, or by closing its connection.
GoodAgent == 1
OtherAgent == 2

GoodReports ==
  \E t \in 1..PushTasks, s \in ResultStatuses :
    /\ Delivered(GoodAgent, t) /\ proc[GoodAgent].client_id = GoodAgent
    /\ WsResult(GoodAgent, t, s)

OtherAnswers ==
  \E t \in 1..PushTasks :
    /\ Delivered(OtherAgent, t) /\ proc[OtherAgent].client_id = OtherAgent
    /\ \/ WsTaskRejected(OtherAgent, t)
       \/ \E s \in ResultStatuses : WsResult(OtherAgent, t, s)
       \/ WsDisconnect(OtherAgent)

NextLive ==
  \/ DispatchSteps
  \/ DropSteps
  \/ \E p \in Procs : SendTaskOk(p)
  \/ \E p \in OneHttp : EnqueueTask(p, PushTasks)
  \/ \E p \in OneHttp : HttpReturn(p)
  \/ \E p \in WsProcs : WsConnect(p)
  \/ \E p \in WsProcs : WsRegister(p, p)
  \/ \E p \in WsProcs : WsSendOk(p)
  \/ GoodReports
  \/ OtherAnswers

\* The event loop runs every handler that can go on, and sends complete; the good
\* agent connects, registers and reports whenever it can; the other agent answers
\* whatever it is handed.
FairLive ==
  /\ \A p \in Procs :
       /\ WF_vars(DispatchLock(p)) /\ WF_vars(DispatchWhile(p)) /\ WF_vars(DispatchFor(p))
       /\ WF_vars(DropLock(p)) /\ WF_vars(DropRequeue(p)) /\ WF_vars(DropReturn(p))
       /\ SF_vars(SendTaskOk(p))
  /\ \A p \in OneHttp : WF_vars(HttpReturn(p))
  /\ \A p \in WsProcs : SF_vars(WsSendOk(p))
  /\ SF_vars(WsConnect(GoodAgent))
  /\ SF_vars(WsRegister(GoodAgent, GoodAgent))
  /\ SF_vars(GoodReports)
  /\ SF_vars(OtherAnswers)

SpecLiveFair == Init /\ [][NextLive]_vars /\ FairLive

\* Enqueueing: requests with and without an archive arrive while push agents connect,
\* get tasks delivered and report on them.
NextEnqueue ==
  \/ DispatchSteps
  \/ \E p \in Procs : SendTaskOk(p)
  \/ \E p \in OneHttp : EnqueueTask(p, MaxTasks)
  \/ \E p \in OneHttp : EnqueueRejected(p)
  \/ \E p \in OneHttp : HttpReturn(p)
  \/ \E p \in WsProcs : WsConnect(p)
  \/ \E p \in WsProcs, c \in Clients : WsRegister(p, c)
  \/ \E p \in WsProcs : WsSendOk(p)
  \/ \E p \in WsProcs, t \in Tasks :
        /\ Delivered(proc[p].client_id, t)
        /\ WsResult(p, t, "success")

SpecEnqueue == Init /\ [][NextEnqueue]_vars

\* Idle reports: push agents connect and register, tasks are enqueued and delivered,
\* and an agent sends heartbeats (idle or running) and results at any moment, also
\* while a task packet for it is still on its way.
NextBeat ==
  \/ DispatchSteps
  \/ \E p \in Procs : SendTaskOk(p)
  \/ \E p \in OneHttp : EnqueueTask(p, PushTasks)
  \/ \E p \in OneHttp : HttpReturn(p)
  \/ \E p \in WsProcs : WsConnect(p)
  \/ \E p \in WsProcs : WsRegister(p, p)
  \/ \E p \in WsProcs : WsSendOk(p)
  \/ \E p \in WsProcs, s \in {"idle", "running"} : WsHeartbeat(p, s, None)
  \/ \E p \in WsProcs, t \in 1..PushTasks :
        /\ RunGet(AGENT_RUNNING_TASKS, t).client_id = proc[p].client_id
        /\ WsResult(p, t, "success")

SpecBeat == Init /\ [][NextBeat]_vars

\* Every way a task changes hands: push agents connect, tasks are enqueued and
\* delivered, sends fail, connections close, agents reject or report the task they
\* hold, and registered clients fetch by long-poll.
NextLoss ==
  \/ DispatchSteps
  \/ DropSteps
  \/ \E p \in Procs : SendTaskOk(p)
  \/ \E p \in Procs : SendTaskFail(p)
  \/ \E p \in OneHttp : EnqueueTask(p, PushTasks)
  \/ \E p \in OneHttp, c \in Clients : FetchTask(p, c, 0)
  \/ \E p \in OneHttp : PopCheck(p)
  \/ \E p \in OneHttp : HttpReturn(p)
  \/ \E p \in OneWs : WsConnect(p)
  \/ \E p \in OneWs, c \in Clients : WsRegister(p, c)
  \/ \E p \in OneWs : WsSendOk(p)
  \/ \E p \in OneWs : WsDisconnect(p)
  \/ \E p \in OneWs, t \in 1..PushTasks :
        /\ RunGet(AGENT_RUNNING_TASKS, t).client_id = proc[p].client_id
        /\ Len(AGENT_PENDING_TASKS) < MaxPending
        /\ WsTaskRejected(p, t)
  \/ \E p \in OneWs, t \in 1..PushTasks, s \in ResultStatuses :
        /\ RunGet(AGENT_RUNNING_TASKS, t).client_id = proc[p].client_id
        /\ WsResult(p, t, s)

SpecLoss == Init /\ [][NextLoss]_vars

\* Both transports side by side: one push agent connects, gets tasks sent and loses
\* its connection, while HTTP handlers enqueue and wait in long-polls.
NextLock ==
  \/ DispatchSteps
  \/ DropSteps
  \/ \E p \in Procs : SendTaskOk(p)
  \/ \E p \in Procs : SendTaskFail(p)
  \/ \E p \in HttpProcs : EnqueueTask(p, PushTasks)
  \/ \E p \in HttpProcs, c \in Clients, t \in 0..1 : FetchTask(p, c, t)
  \/ \E p \in HttpProcs : PopCheck(p)
  \/ \E p \in HttpProcs : Wake(p)
  \/ Tick
  \/ \E p \in HttpProcs : HttpReturn(p)
  \/ \E p \in OneWs : WsConnect(p)
  \/ \E p \in OneWs : WsRegister(p, 1)
  \/ \E p \in OneWs : WsSendOk(p)
  \/ \E p \in OneWs : WsDisconnect(p)

SpecLock == Init /\ [][NextLock]_vars

\* Two push agents next to a long-poll of the same clients: tasks are enqueued, sent
\* and fetched, and a connection is lost (peer close or a failed send).
NextFrame ==
  \/ DispatchSteps
  \/ DropSteps
  \/ \E p \in Procs : SendTaskOk(p)
  \/ \E p \in Procs : SendTaskFail(p)
  \/ \E p \in OneHttp : EnqueueTask(p, PushTasks)
  \/ \E p \in OneHttp, c \in Clients : FetchTask(p, c, 0)
  \/ \E p \in OneHttp : PopCheck(p)
  \/ \E p \in OneHttp : HttpReturn(p)
  \/ \E p \in WsProcs : WsConnect(p)
  \/ \E p \in WsProcs : WsRegister(p, p)
  \/ \E p \in WsProcs : WsSendOk(p)
  \/ \E p \in WsProcs : WsDisconnect(p)

SpecFrame == Init /\ [][NextFrame]_vars

\* One push agent (client 1) and one agent that only registers and fetches over HTTP
\* (client 2): tasks are enqueued, pushed and fetched, the push agent reports idle
\* and its connection is lost.
PushAgent == 1
PollAgent == 2
NextTransport ==
  \/ DispatchSteps
  \/ DropSteps
  \/ \E p \in Procs : SendTaskOk(p)
  \/ \E p \in Procs : SendTaskFail(p)
  \/ \E p \in OneHttp : EnqueueTask(p, PushTasks)
  \/ \E p \in OneHttp : RegisterAgent(p, PollAgent)
  \/ \E p \in OneHttp, c \in Clients : FetchTask(p, c, 0)
  \/ \E p \in OneHttp : PopCheck(p)
  \/ \E p \in OneHttp : HttpReturn(p)
  \/ \E p \in OneWs : WsConnect(p)
  \/ \E p \in OneWs : WsRegister(p, PushAgent)
  \/ \E p \in OneWs : WsSendOk(p)
  \/ \E p \in OneWs : WsHeartbeat(p, "idle", None)
  \/ \E p \in OneWs : WsDisconnect(p)

SpecTransport == Init /\ [][NextTransport]_vars

\* The worker process on its own: it starts in one of the two transports, the server
\* sends it tasks, it executes them and reports.
NextAgent ==
  \/ \E w \in BOOLEAN : AgentRun(w)
  \/ AgentTaskPacket
  \/ AgentWsTask
  \/ AgentWorkerStart
  \/ AgentFetch
  \/ \E a \in {"task", "none", "error"} : AgentFetchAnswer(a)
  \/ \E t \in 1..MaxTasks, ok \in BOOLEAN : AgentEnter(t, ok)
  \/ \E t \in 1..MaxTasks, ok \in BOOLEAN : AgentExecute(t, ok)
  \/ \E t \in 1..MaxTasks, ok \in BOOLEAN : AgentSubmitResult(t, ok)
  \/ \E t \in 1..MaxTasks : AgentHandled(t)

SpecAgent == Init /\ [][NextAgent]_vars

\* The websocket thread of a push agent: connecting, losing the connection, sleeping
\* and connecting again, with task packets read while the connection is open.
NextReconnect ==
  \/ AgentRun(TRUE)
  \/ AgentStop
  \/ AgentWsLoopTest
  \/ \E ok \in BOOLEAN : AgentWsConnect(ok)
  \/ \E raised \in BOOLEAN : AgentWsClosed(raised)
  \/ AgentWsExcept
  \/ AgentWsSlept
  \/ agent.ws = "open" /\ AgentTaskPacket
  \/ agent.ws = "open" /\ AgentWsTask

SpecReconnect == Init /\ [][NextReconnect]_vars

\* Packets about tasks of other agents: two push agents connect, tasks are enqueued
\* and delivered, and any agent rejects or reports any task id, over its connection or
\* with POST /task_result.
NextForeign ==
  \/ DispatchSteps
  \/ \E p \in Procs : SendTaskOk(p)
  \/ \E p \in OneHttp : EnqueueTask(p, PushTasks)
  \/ \E p \in OneHttp, c \in Clients, t \in 1..PushTasks : TaskResult(p, c, t, "success")
  \/ \E p \in OneHttp : HttpReturn(p)
  \/ \E p \in WsProcs : WsConnect(p)
  \/ \E p \in WsProcs : WsRegister(p, p)
  \/ \E p \in WsProcs : WsSendOk(p)
  \/ \E p \in WsProcs, t \in 1..PushTasks :
        /\ Len(AGENT_PENDING_TASKS) < MaxPending
        /\ WsTaskRejected(p, t)
  \/ \E p \in WsProcs, t \in 1..PushTasks : WsResult(p, t, "success")

SpecForeign == Init /\ [][NextForeign]_vars

\* Re-registration: one agent (client 1) opens push connections, also a second one
\* while the first is still open; tasks are enqueued and delivered; connections close.
NextRereg ==
  \/ DispatchSteps
  \/ DropSteps
  \/ \E p \in Procs : SendTaskOk(p)
  \/ \E p \in OneHttp : EnqueueTask(p, PushTasks)
  \/ \E p \in OneHttp : HttpReturn(p)
  \/ \E p \in WsProcs : WsConnect(p)
  \/ \E p \in WsProcs : WsRegister(p, PushAgent)
  \/ \E p \in WsProcs : WsSendOk(p)
  \/ \E p \in WsProcs : WsDisconnect(p)

SpecRereg == Init /\ [][NextRereg]_vars

\* Result packets: two push agents connect, tasks are enqueued and delivered, and an
\* agent reports a task it holds in a result packet whose payload names any client.
NextForge ==
  \/ DispatchSteps
  \/ \E p \in Procs : SendTaskOk(p)
  \/ \E p \in OneHttp : EnqueueTask(p, PushTasks)
  \/ \E p \in OneHttp : HttpReturn(p)
  \/ \E p \in WsProcs : WsConnect(p)
  \/ \E p \in WsProcs : WsRegister(p, p)
  \/ \E p \in WsProcs : WsSendOk(p)
  \/ \E p \in WsProcs, t \in 1..PushTasks, s \in ResultStatuses, c \in Clients \cup {None} :
        /\ RunGet(AGENT_RUNNING_TASKS, t).client_id = proc[p].client_id
        /\ WsResultPacket(p, t, s, c)

SpecForge == Init /\ [][NextForge]_vars

\* The chain dispatch -> failed send -> requeue -> drop -> dispatch, as deep as it
\* gets: two push agents are connected and idle, tasks are enqueued, sends succeed or
\* fail, agents report the tasks they hold, and nobody connects again.
NextChain ==
  \/ DispatchSteps
  \/ DropSteps
  \/ \E p \in Procs : SendTaskOk(p)
  \/ \E p \in Procs : SendTaskRaises(p)
  \/ \E p \in OneHttp : EnqueueTask(p, PushTasks)
  \/ \E p \in OneHttp : HttpReturn(p)
  \/ \E p \in WsProcs : WsSendOk(p)
  \/ \E p \in WsProcs, t \in 1..PushTasks :
        /\ RunGet(AGENT_RUNNING_TASKS, t).client_id = proc[p].client_id
        /\ WsResult(p, t, "success")

\* The event loop runs every handler that can go on, and every send of a task packet
\* returns or raises.
FairChain ==
  /\ \A p \in Procs :
       /\ WF_vars(DispatchLock(p)) /\ WF_vars(DispatchWhile(p)) /\ WF_vars(DispatchFor(p))
       /\ WF_vars(DropLock(p)) /\ WF_vars(DropRequeue(p)) /\ WF_vars(DropReturn(p))
       /\ SF_vars(SendTaskOk(p) \/ SendTaskRaises(p))
  /\ \A p \in OneHttp : WF_vars(HttpReturn(p))

SpecChainFair == InitScenario /\ [][NextChain]_vars /\ FairChain

\* ================================================================ claims

\* ---------------------------------------------------------------- C1
\* C1: whenever every handler is suspended or finished, no task id occurs more
\* than once in the pending queue and no task id is both pending and running.
\* (The code breaks this: a failed send requeues the task in _requeue_task and
\* again in _drop_ws_connection.)
C1_UniqueIds ==
  cur = 0 =>
    /\ \A t \in Tasks : Count(AGENT_PENDING_TASKS, t) <= 1
    /\ Range(AGENT_PENDING_TASKS) \cap RunningIds = {}

\* ---------------------------------------------------------------- C2
\* C2: a task that is in the running table bound to one agent is not bound to a
\* different agent by the next step: its entry has to be removed in between.
\* (The code breaks this: the duplicate pending entry of C1 is dispatched while
\* the first assignment is still in the table.)
C2_AtMostOneAssignment ==
  [][\A t \in Tasks :
       LET old == RunGet(AGENT_RUNNING_TASKS, t)
           new == RunGet(AGENT_RUNNING_TASKS', t)
       IN (old.task_id # None /\ new.task_id # None) => new.client_id = old.client_id]_vars

C4_AfterDisconnectHandling ==
  \A p \in WsProcs :
    LET st == proc[p].stack IN
    (/\ Len(st) = 1 /\ st[1].fn = "drop" /\ proc[p].pc = "drop_return"
     /\ Len(st[1].requeue_tasks) = 1)
    => /\ st[1].requeue_tasks[1] \notin RunningIds
       /\ AGENT_PENDING_TASKS # <<>>
       /\ Head(AGENT_PENDING_TASKS) = st[1].requeue_tasks[1]
       /\ AGENT_CLIENTS[st[1].client_id] = [status |-> "offline", task_id |-> None]

\* C4, amended: when _drop_ws_connection for agent A has requeued A's push
\* tasks and has not yet run its dispatch, none of them is in the running table,
\* they are the front of the pending queue (the last requeued first) and A's
\* record is offline with a null task id.
C4_DisconnectRequeue ==
  \A p \in Procs :
    LET st == proc[p].stack
        n == Len(st)
    IN (/\ n >= 1 /\ st[n].fn = "drop" /\ proc[p].pc = "drop_requeue" /\ st[n].todo = <<>>
        /\ st[n].requeue_tasks # <<>>)
       => LET tasks == st[n].requeue_tasks
              k == Len(tasks)
          IN /\ \A i \in 1..k : tasks[i] \notin RunningIds
             /\ Len(AGENT_PENDING_TASKS) >= k
             /\ \A i \in 1..k : AGENT_PENDING_TASKS[i] = tasks[k + 1 - i]
             /\ AGENT_CLIENTS[st[n].client_id] = [status |-> "offline", task_id |-> None]

\* a connection handler is ending, its agent's task is requeued while another
\* agent is idle and connected
C4_Witness ==
  \E p \in WsProcs :
    LET st == proc[p].stack IN
    /\ Len(st) = 1 /\ st[1].fn = "drop" /\ proc[p].pc = "drop_requeue" /\ st[1].todo = <<>>
    /\ st[1].requeue_tasks # <<>>
    /\ \E c \in AGENT_WS_IDLE : AGENT_WS_CONNECTIONS[c] # 0

\* ---------------------------------------------------------------- C5
\* C5 as stated: when an enqueue call that found an idle push-connected agent
\* is about to return, its task is out of the pending queue and bound to an
\* agent in the running table.
C5_AssignedAtReturn ==
  \A p \in HttpProcs :
    LET st == proc[p].stack IN
    (/\ proc[p].kind = "enqueue" /\ proc[p].pc = "dispatch_for" /\ Len(st) = 1
     /\ st[1].index > Len(st[1].assignments)
     /\ Len(st[1].assignments) + Len(st[1].idle_clients) >= 1)
    => /\ proc[p].task_id \notin Range(AGENT_PENDING_TASKS)
       /\ proc[p].task_id \in RunningIds

\* C5, amended: when an enqueue call finds at least as many idle push-connected
\* agents as there are pending tasks (its own included), the lock section of its
\* dispatch takes the task out of the pending queue and binds it to exactly one
\* agent: one running entry, on the push channel, for the agent the task packet
\* will be sent to, whose record is running with this task.
C5_AssignedByDispatch ==
  \A p \in HttpProcs :
    LET st == proc[p].stack IN
    (/\ proc[p].kind = "enqueue" /\ proc[p].pc = "dispatch_for" /\ Len(st) = 1
     /\ st[1].index = 1
     /\ Len(st[1].assignments) + Len(st[1].idle_clients) >= proc[p].resp.pending)
    => LET t == proc[p].task_id
           info == RunGet(AGENT_RUNNING_TASKS, t)
       IN /\ t \notin Range(AGENT_PENDING_TASKS)
          /\ Cardinality({i \in 1..Len(AGENT_RUNNING_TASKS) :
                            AGENT_RUNNING_TASKS[i].task_id = t}) = 1
          /\ info.channel = "ws"
          /\ Cardinality({i \in 1..Len(st[1].assignments) : st[1].assignments[i][2] = t}) = 1
          /\ \E i \in 1..Len(st[1].assignments) : st[1].assignments[i] = <<info.client_id, t>>
          /\ AGENT_CLIENTS[info.client_id] = [status |-> "running", task_id |-> t]
          /\ info.client_id \notin AGENT_WS_IDLE

\* an enqueue found two idle agents and one task ahead, and has assigned both tasks
C5_Witness ==
  \E p \in HttpProcs :
    LET st == proc[p].stack IN
    /\ proc[p].kind = "enqueue" /\ proc[p].pc = "dispatch_for" /\ Len(st) = 1
    /\ st[1].index = 1
    /\ proc[p].resp.pending = 2
    /\ Len(st[1].assignments) = 2
    /\ proc[p].task_id \in RunningIds

\* ---------------------------------------------------------------- C6
\* C6: two idle push agents, empty queue, T1, T2, T3 enqueued in that order.
\* Once an enqueue call is through its dispatch, T1 and T2 are in the running
\* table, bound one each to the two agents, for as long as no result for them is
\* stored; T3 leaves the pending queue only by being bound, on the push channel,
\* to an agent whose idle report (result or idle heartbeat) is being handled;
\* and when the handler of an agent's report is through its dispatch, T3 is no
\* longer pending.
C6_TwoAgentsThreeTasks ==
  /\ [](LET settled == \A p \in HttpProcs :
                         proc[p].kind = "enqueue" => proc[p].pc \notin {"dispatch_lock", "dispatch_while"}
            one == RunGet(AGENT_RUNNING_TASKS, 1)
            two == RunGet(AGENT_RUNNING_TASKS, 2)
        IN /\ (settled /\ issued >= 1 /\ AGENT_RESULTS[1].status = "none")
                => one.client_id \in ScenarioAgents
           /\ (settled /\ issued >= 2 /\ AGENT_RESULTS[1].status = "none"
                       /\ AGENT_RESULTS[2].status = "none")
                => /\ two.client_id \in ScenarioAgents
                   /\ two.client_id # one.client_id)
  /\ [][(3 \in Range(AGENT_PENDING_TASKS) /\ 3 \notin Range(AGENT_PENDING_TASKS'))
          => LET three == RunGet(AGENT_RUNNING_TASKS', 3)
             IN /\ three.channel = "ws"
                /\ three.client_id \in ScenarioAgents
                /\ \E q \in Procs :
                     /\ proc[q].client_id = three.client_id
                     /\ \/ proc[q].kind = "result"
                        \/ proc[q].kind = "ws" /\ proc[q].pc = "send_heartbeat_ack_idle"
                        \/ proc[q].kind = "ws" /\ proc[q].ret \in {"ws_recv", "send_result_ack"}]_vars
  /\ [](\A q \in Procs :
          (/\ proc[q].client_id \in ScenarioAgents
           /\ proc[q].kind = "result" \/ proc[q].ret \in {"ws_recv", "send_result_ack"}
           /\ proc[q].pc = "dispatch_for" /\ Len(proc[q].stack) = 1
           /\ proc[q].stack[1].index = 1)
          => 3 \notin Range(AGENT_PENDING_TASKS))

\* T1 has gone to one agent and T2 to the other, the agent of T1 has reported its
\* result and holds T3, T2 is still running
C6_Witness ==
  LET three == RunGet(AGENT_RUNNING_TASKS, 3)
      two == RunGet(AGENT_RUNNING_TASKS, 2)
  IN /\ three.client_id \in ScenarioAgents
     /\ two.client_id \in ScenarioAgents
     /\ two.client_id # three.client_id
     /\ AGENT_RESULTS[1] = [client_id |-> three.client_id, status |-> "success"]
     /\ AGENT_RESULTS[2].status = "none"
     /\ AGENT_PENDING_TASKS = <<>>

C8_LongPollRoundTrip ==
  \A p \in HttpProcs :
    (proc[p].kind = "result" /\ proc[p].pc = "return" /\ proc[p].status = "success")
    => /\ AGENT_CLIENTS[proc[p].client_id] = [status |-> "idle", task_id |-> None]
       /\ proc[p].task_id \notin Range(AGENT_PENDING_TASKS)
       /\ proc[p].task_id \notin RunningIds
       /\ AGENT_RESULTS[proc[p].task_id] = [client_id |-> proc[p].client_id, status |-> "success"]

\* the round trip is over for one task while the other task is still pending
C8_Witness ==
  \E p \in HttpProcs :
    /\ proc[p].kind = "result" /\ proc[p].pc = "return" /\ proc[p].status = "success"
    /\ AGENT_RESULTS[proc[p].task_id].status = "success"
    /\ AGENT_CLIENTS[proc[p].client_id].status = "idle"
    /\ AGENT_PENDING_TASKS # <<>>

\* ---------------------------------------------------------------- C9
\* C9: a GET /task call of a registered client with wait budget t > 0 sets its
\* deadline t units after its start; it returns 204 only from a check that finds
\* the queue empty at or after the deadline; a check that finds a task pending
\* returns 200 with the head of the queue, now bound to the caller in the
\* running table; a call of a registered client returns nothing but 200 or 204;
\* and every call that waits gets its response.
C9_LongPollTimeout ==
  /\ \A p \in HttpProcs :
       (proc[p].pc = "sleep") ~> (proc[p].kind = "fetch" /\ proc[p].pc = "return")
  /\ [][\A p \in HttpProcs :
       /\ (proc[p].pc = "done" /\ proc'[p].pc = "pop_check" /\ proc'[p].timeout > 0)
          => proc'[p].deadline = now + proc'[p].timeout
       /\ (proc[p].pc = "pop_check" /\ proc'[p].pc = "return" /\ proc[p].timeout > 0
           /\ proc'[p].resp.code # 200)
          => /\ proc'[p].resp.code = 204
             /\ now >= proc[p].deadline
             /\ AGENT_PENDING_TASKS = <<>>
       /\ (proc[p].pc = "pop_check" /\ proc'[p] # proc[p] /\ AGENT_PENDING_TASKS # <<>>)
          => /\ proc'[p].pc = "return"
             /\ proc'[p].resp.code = 200
             /\ proc'[p].resp.task_id = Head(AGENT_PENDING_TASKS)
             /\ AGENT_PENDING_TASKS' = Tail(AGENT_PENDING_TASKS)
             /\ RunGet(AGENT_RUNNING_TASKS', Head(AGENT_PENDING_TASKS)).client_id = proc[p].client_id
       /\ (proc[p].pc = "done" /\ proc'[p].kind = "fetch"
           /\ AGENT_CLIENTS[proc'[p].client_id].status # "none")
          => proc'[p].pc = "pop_check"]_vars

\* a call with the largest budget has waited it out and answers 204
C9_Witness ==
  \E p \in HttpProcs :
    /\ proc[p].kind = "fetch" /\ proc[p].pc = "return"
    /\ proc[p].resp.code = 204
    /\ proc[p].timeout = MaxTimeout
    /\ proc[p].deadline = MaxTimeout
    /\ now >= MaxTimeout

\* ---------------------------------------------------------------- C10
\* C10: every record of the registry with status running has a task id that is
\* not null, and every record with status idle or offline has a null or absent
\* task id.  (The code breaks this: both heartbeat handlers store the status and
\* the task id the client reports, whatever they are.)
C10_StatusTaskInvariant ==
  \A c \in Clients :
    /\ AGENT_CLIENTS[c].status = "running" => AGENT_CLIENTS[c].task_id \notin {None, Absent}
    /\ AGENT_CLIENTS[c].status \in {"idle", "offline"} => AGENT_CLIENTS[c].task_id \in {None, Absent}

\* ---------------------------------------------------------------- C11
\* C11: when the handler of a task_ack with accepted = false for a task the
\* agent held has taken the assignment back, the task is not in the running
\* table, it is the head of the pending queue and the rejecting agent is in
\* neither the idle set nor the connection table; and the dispatch it then runs
\* does not assign the task to that agent.  (The code breaks this:
\* _mark_client_idle puts the rejecting agent into the idle set.)
C11_RejectDropsAgent ==
  \A p \in WsProcs :
    LET st == proc[p].stack IN
    /\ (proc[p].ret = "ws_recv" /\ proc[p].task_id # None /\ proc[p].pc = "dispatch_lock")
       => /\ proc[p].task_id \notin RunningIds
          /\ AGENT_PENDING_TASKS # <<>>
          /\ Head(AGENT_PENDING_TASKS) = proc[p].task_id
          /\ proc[p].client_id \notin AGENT_WS_IDLE
          /\ AGENT_WS_CONNECTIONS[proc[p].client_id] = 0
    /\ (proc[p].ret = "ws_recv" /\ proc[p].task_id # None /\ Len(st) = 1
        /\ st[1].fn = "dispatch")
       => \A i \in 1..Len(st[1].assignments) :
            st[1].assignments[i] # <<proc[p].client_id, proc[p].task_id>>

\* ---------------------------------------------------------------- C12
\* C12: once a result with status failed is stored for a task whose worker reported
\* it, the task id is in neither the pending queue nor the running table (so the
\* coordinator cannot dispatch it again; no caller enqueues the same id anew here).
\* (The code breaks this: the second copy a failed send leaves in the pending queue
\* is dispatched after the first one's failure was recorded.)
C12_FailedNeverRetried ==
  \A t \in Tasks :
    AGENT_RESULTS[t].status = "failed"
      => /\ t \notin Range(AGENT_PENDING_TASKS)
         /\ t \notin RunningIds

\* ---------------------------------------------------------------- C13
\* C13: a POST /heartbeat or GET /task that starts with a client id that has no record
\* answers 404 and leaves the registry, the pending queue and the running table (and
\* every other shared table) as they were, the handler going straight to its return;
\* a POST /heartbeat for a registered client answers 200 and leaves the record with
\* exactly the reported status and task id.
C13_UnknownClient ==
  [][\A p \in HttpProcs :
       (proc[p].pc = "done" /\ proc'[p].pc # "done" /\ proc'[p].kind \in {"heartbeat", "fetch"})
         => LET c == proc'[p].client_id IN
            IF AGENT_CLIENTS[c].status = "none"
            THEN /\ proc'[p].resp.code = 404
                 /\ proc'[p].pc = "return"
                 /\ shared' = shared
            ELSE proc'[p].kind = "heartbeat"
                   => /\ proc'[p].resp.code = 200
                      /\ AGENT_CLIENTS'[c] = [status |-> proc'[p].status,
                                              task_id |-> proc'[p].task_id]
                      /\ \A d \in Clients \ {c} : AGENT_CLIENTS'[d] = AGENT_CLIENTS[d]]_vars

\* a fetch for an unregistered client was answered 404 while a task was pending, and
\* a heartbeat has written a status and a task id into a registered client's record
C13_Witness ==
  /\ \E p \in HttpProcs :
       /\ proc[p].kind = "fetch" /\ proc[p].resp.code = 404
       /\ AGENT_CLIENTS[proc[p].client_id].status = "none"
  /\ AGENT_PENDING_TASKS # <<>>
  /\ \E c \in Clients : AGENT_CLIENTS[c].status = "running" /\ AGENT_CLIENTS[c].task_id = 1

\* ---------------------------------------------------------------- C14
\* C14: with a token configured, every request to /register, /heartbeat, /task,
\* /task_result or /tasks/enqueue that lacks the token is answered 401 whatever client
\* id it names, every push connection that lacks it is closed with 4401, and no
\* shared table changes. (The code breaks this: GET /task for an unregistered client
\* id answers 404, the lookup coming before the auth check.)
C14_UnauthorizedRejected ==
  [][\A p \in Procs :
       (proc[p].pc = "done" /\ proc'[p].pc # "done" /\ ~proc'[p].token_ok)
         => /\ proc'[p].resp.code = IF proc'[p].kind = "ws" THEN 4401 ELSE 401
            /\ proc'[p].pc = "return"
            /\ shared' = shared]_vars

\* ---------------------------------------------------------------- C15
\* C15: when the first message of a push connection is no register packet, the handler
\* closes the connection and ends with no client registered: from the first message to
\* the handler's end the registry, the connection table, the idle set, the pending
\* queue and the running table stay as they were, and the handler enters neither
\* _dispatch_tasks nor _drop_ws_connection.
C15_FirstMessageNotRegister ==
  [][\A p \in WsProcs :
       /\ (proc[p].pc = "wait_register" /\ proc'[p].pc # "wait_register"
             /\ proc'[p].client_id = None)
            => /\ shared' = shared
               /\ proc'[p].pc \in {"close_4400", "done"}
               /\ proc'[p].stack = <<>>
       /\ (proc[p].pc = "close_4400" /\ proc'[p] # proc[p])
            => /\ shared' = shared
               /\ proc'[p] = FreeProc]_vars

\* a connection is being closed with 4400 while a task is pending and another agent
\* is connected and idle (a dispatch would have changed the tables)
C15_Witness ==
  \E p \in WsProcs :
    /\ proc[p].pc = "close_4400" /\ proc[p].resp.code = 4400 /\ proc[p].client_id = None
    /\ AGENT_PENDING_TASKS # <<>>
    /\ \E c \in AGENT_WS_IDLE : AGENT_WS_CONNECTIONS[c] # 0

\* ---------------------------------------------------------------- C16
\* C16: a registered push agent's packet of unknown type, with an un-parseable body, or
\* a result packet that fails validation makes the handler send an error packet and
\* nothing else: no shared table changes (the agent stays in the connection table,
\* its assignments stay in the running table, nothing is stored). (The code breaks
\* this for the un-parseable body: receive_json raises and the connection is dropped.)
C16_BadPacketKeepsConnection ==
  [][\A p \in WsProcs :
       (proc[p].pc = "ws_recv" /\ proc'[p].msg \in BadPackets)
         => /\ proc'[p].pc = "send_error"
            /\ shared' = shared]_vars

\* ---------------------------------------------------------------- C17
\* C17: a registration (POST /register or a register packet) that names an id answers
\* with that id, one without an id answers with an id no record carried before; after
\* it the registry holds the freshly written record under that id, has gained at most
\* that one id, and every other client's record is as it was.
C17_RegistrationIdempotent ==
  [][LET Registers(c, id) ==
           /\ c # None => id = c
           /\ c = None => id \in Clients \ Registered
           /\ AGENT_CLIENTS'[id] = RegisterRecord
           /\ {d \in Clients : AGENT_CLIENTS'[d].status # "none"} = Registered \cup {id}
           /\ \A d \in Clients \ {id} : AGENT_CLIENTS'[d] = AGENT_CLIENTS[d]
     IN /\ \A p \in HttpProcs, c \in Clients \cup {None} :
             RegisterAgent(p, c) => /\ Registers(c, proc'[p].client_id)
                                    /\ proc'[p].resp.code = 200
        /\ \A p \in WsProcs, c \in Clients \cup {None} :
             WsRegister(p, c) => Registers(c, proc'[p].client_id)]_vars

\* POST /register has just answered for an id that is registered on a push connection
\* as well (so the id was registered before), while the other client's record carries
\* a reported state
C17_Witness ==
  \E p \in HttpProcs :
    /\ proc[p].kind = "register" /\ proc[p].pc = "return"
    /\ AGENT_WS_CONNECTIONS[proc[p].client_id] # 0
    /\ AGENT_CLIENTS[proc[p].client_id] = RegisterRecord
    /\ \E d \in Clients \ {proc[p].client_id} : AGENT_CLIENTS[d].status = "running"

\* ---------------------------------------------------------------- C18
\* C18: the pending queue changes in three ways only. An enqueue puts the new task
\* behind every pending task; an assignment takes the task at the head and leaves the
\* rest in order (so tasks never taken before leave in the order they came); a
\* requeue puts the task at the head, in front of every task pending at that moment,
\* whenever those were enqueued.
C18_QueueOrdering ==
  [][AGENT_PENDING_TASKS' # AGENT_PENDING_TASKS
       => \/ /\ issued' = issued + 1
             /\ AGENT_PENDING_TASKS' = Append(AGENT_PENDING_TASKS, issued')
          \/ /\ issued' = issued
             /\ AGENT_PENDING_TASKS # <<>>
             /\ AGENT_PENDING_TASKS' = Tail(AGENT_PENDING_TASKS)
             /\ RunGet(AGENT_RUNNING_TASKS', Head(AGENT_PENDING_TASKS)).client_id # None
          \/ /\ issued' = issued
             /\ AGENT_PENDING_TASKS' # <<>>
             /\ Tail(AGENT_PENDING_TASKS') = AGENT_PENDING_TASKS
             /\ Head(AGENT_PENDING_TASKS') \in 1..issued]_vars

\* an agent has just rejected the older task while the newer one was pending: the
\* rejected task is at the head, in front of the task enqueued after it
C18_Witness ==
  \E p \in WsProcs :
    /\ proc[p].pc = "dispatch_lock" /\ proc[p].ret = "ws_recv" /\ proc[p].task_id # None
    /\ Len(AGENT_PENDING_TASKS) >= 2
    /\ AGENT_PENDING_TASKS[1] = proc[p].task_id
    /\ AGENT_PENDING_TASKS[2] > proc[p].task_id

\* ---------------------------------------------------------------- C19
\* C19: with the event loop and the agents fair as above (the good agent keeps
\* connecting and reporting), every task that was enqueued eventually has a stored
\* result. (The code breaks this: an agent that rejects is marked idle and handed the
\* same task again, for ever, while the good agent sits idle.)
C19_EventualCompletion ==
  \A t \in 1..PushTasks : (issued >= t) ~> (AGENT_RESULTS[t].status # "none")

\* ---------------------------------------------------------------- C20
\* C20: an enqueue request without an archive is answered 400 and changes no shared
\* table (the pending queue among them); an accepted one gives the task an id never
\* issued before, leaves the pending queue as it was with that id added at the tail,
\* and its response carries that id and the queue length right after the append;
\* the response is not touched again until the handler returns it.
C20_Enqueue ==
  [][\A p \in HttpProcs :
       /\ (proc[p].pc = "done" /\ proc'[p].pc # "done" /\ proc'[p].kind = "enqueue")
            => IF proc'[p].resp.code = 400
               THEN /\ shared' = shared
                    /\ proc'[p].pc = "return"
               ELSE /\ proc'[p].resp.code = 200
                    /\ proc'[p].resp.task_id \notin 0..issued
                    /\ AGENT_PENDING_TASKS' = Append(AGENT_PENDING_TASKS, proc'[p].resp.task_id)
                    /\ proc'[p].resp.pending = Len(AGENT_PENDING_TASKS) + 1
       /\ (proc[p].kind = "enqueue" /\ proc'[p].kind = "enqueue")
            => proc'[p].resp = proc[p].resp]_vars

\* an enqueue is about to return the count 2 it measured after its append behind a
\* waiting task, while the dispatch it ran has emptied the queue since
C20_Witness ==
  \E p \in HttpProcs :
    /\ proc[p].kind = "enqueue" /\ proc[p].pc = "return"
    /\ proc[p].resp.code = 200 /\ proc[p].resp.pending = 2 /\ proc[p].resp.task_id = 2
    /\ AGENT_PENDING_TASKS = <<>>
    /\ proc[p].resp.task_id \in RunningIds

\* ---------------------------------------------------------------- C21
\* C21: in every reachable state no agent is bound to more than one entry of the
\* running table. (The code breaks this: an idle heartbeat puts the agent into the
\* idle set although the running table still binds a task to it, and the dispatch
\* that follows assigns it a second task.)
C21_OneAssignmentPerAgent ==
  \A c \in Clients :
    Cardinality({i \in 1..Len(AGENT_RUNNING_TASKS) : AGENT_RUNNING_TASKS[i].client_id = c}) <= 1

\* ---------------------------------------------------------------- C22
\* C22: in every reachable state each task that was enqueued is in the pending queue,
\* or in the running table, or in the list of tasks a _drop_ws_connection call has
\* taken back and is about to requeue, or has a stored result.
C22_NoTaskLost ==
  \A t \in 1..issued :
    \/ t \in Range(AGENT_PENDING_TASKS)
    \/ t \in RunningIds
    \/ AGENT_RESULTS[t].status # "none"
    \/ \E p \in Procs : \E k \in 1..Len(proc[p].stack) :
         proc[p].stack[k].fn = "drop" /\ t \in Range(proc[p].stack[k].todo)

\* a dropped connection's task is in no table at all: only the handler holds it
C22_Witness ==
  \E p \in Procs : \E k \in 1..Len(proc[p].stack) :
    LET todo == proc[p].stack[k].todo IN
    /\ proc[p].stack[k].fn = "drop" /\ todo # <<>>
    /\ Head(todo) \notin Range(AGENT_PENDING_TASKS)
    /\ Head(todo) \notin RunningIds
    /\ AGENT_RESULTS[Head(todo)].status = "none"

\* ---------------------------------------------------------------- C23
\* C23: whenever _dispatch_tasks leaves its lock section, the pending queue is empty or
\* no client is both in the idle set and in the connection table; and each of these
\* leads the handler into _dispatch_tasks: an accepted enqueue, a recorded result
\* (at once), a push registration and an idle heartbeat of a push agent (once the
\* acknowledgement has been sent).
C23_WorkConservation ==
  [][/\ \A p \in Procs :
          /\ (AGENT_LOCK = p /\ AGENT_LOCK' = 0 /\ proc[p].pc = "dispatch_while")
               => \/ AGENT_PENDING_TASKS' = <<>>
                  \/ {c \in AGENT_WS_IDLE' : AGENT_WS_CONNECTIONS'[c] # 0} = {}
          /\ (proc[p].pc = "done" /\ proc'[p].kind = "enqueue" /\ proc'[p].resp.code = 200)
               => proc'[p].pc = "dispatch_lock" /\ cur' = p
          /\ (proc[p].pc = "wait_register" /\ proc'[p].client_id # None)
               => proc'[p].pc = "send_register_ack"
          /\ (/\ proc[p].pc = "ws_recv"
              /\ proc'[p].pc \in {"send_heartbeat_ack", "send_heartbeat_ack_idle"}
              /\ AGENT_CLIENTS'[proc[p].client_id].status = "idle")
               => proc'[p].pc = "send_heartbeat_ack_idle"
          /\ (proc[p].pc \in {"send_register_ack", "send_heartbeat_ack_idle"}
              /\ proc'[p].pc # proc[p].pc)
               => proc'[p].pc = "dispatch_lock" /\ cur' = p
     /\ AGENT_RESULTS' # AGENT_RESULTS
          => \E p \in Procs : proc'[p].pc = "dispatch_lock" /\ cur' = p]_vars

\* a dispatch has left its lock section having assigned a task to the only idle
\* agent, with another task still pending
C23_Witness ==
  \E p \in Procs :
    /\ proc[p].pc = "dispatch_for" /\ AGENT_LOCK = 0 /\ proc[p].stack # <<>>
    /\ Top(p).assignments # <<>> /\ Top(p).index = 1
    /\ AGENT_PENDING_TASKS # <<>>
    /\ {c \in AGENT_WS_IDLE : AGENT_WS_CONNECTIONS[c] # 0} = {}

\* ---------------------------------------------------------------- C24
\* C24: an accepted enqueue carries the response 200 with its task id from the append
\* to its return, whatever its dispatch runs into; when a send in that dispatch fails
\* the handler puts the task back at the head and goes on to drop the agent, and when
\* the connection has vanished it puts the task back and goes on with the next
\* assignment.
C24_EnqueueAlwaysSucceeds ==
  /\ [](\A p \in HttpProcs :
          (proc[p].kind = "enqueue" /\ proc[p].pc # "done")
            => /\ proc[p].resp.code = 200
               /\ proc[p].resp.task_id = proc[p].task_id
               /\ proc[p].task_id \in 1..issued)
  /\ [][\A p \in HttpProcs :
          /\ (proc[p].kind = "enqueue" /\ proc[p].pc = "send_task" /\ proc'[p].pc # "send_task")
               => \/ proc'[p].pc = "dispatch_for"
                  \/ /\ proc'[p].pc = "drop_lock"
                     /\ AGENT_PENDING_TASKS' = <<Top(p).assignments[Top(p).index][2]>>
                                                  \o AGENT_PENDING_TASKS
                     /\ proc'[p].stack[Len(proc'[p].stack)].client_id
                          = Top(p).assignments[Top(p).index][1]
          /\ (proc[p].kind = "enqueue" /\ proc[p].pc = "return" /\ proc'[p] # proc[p])
               => proc'[p] = FreeProc]_vars

\* an enqueue is about to return 200 from a dispatch in which a send failed: the
\* drop it ran has taken a task back and is returning to the for loop
C24_Witness ==
  \E p \in HttpProcs :
    /\ proc[p].kind = "enqueue" /\ proc[p].pc = "drop_return" /\ proc[p].resp.code = 200
    /\ Len(proc[p].stack) = 2
    /\ proc[p].stack[1].fn = "dispatch" /\ proc[p].stack[2].fn = "drop"
    /\ proc[p].stack[2].requeue_tasks # <<>>

Dropping(st) ==
  IF \E i \in 1..Len(st) : st[i].fn = "drop"
  THEN st[CHOOSE i \in 1..Len(st) :
            st[i].fn = "drop" /\ \A j \in (i + 1)..Len(st) : st[j].fn # "drop"].client_id
  ELSE None
\* what a step leaves alone of everything that is not agent a's push state
OthersUnchanged(a) ==
  /\ \A c \in Clients \ {a} :
       /\ AGENT_CLIENTS'[c] = AGENT_CLIENTS[c]
       /\ AGENT_WS_CONNECTIONS'[c] = AGENT_WS_CONNECTIONS[c]
       /\ (c \in AGENT_WS_IDLE') = (c \in AGENT_WS_IDLE)
  /\ \A t \in 1..MaxTasks :
       LET info == RunGet(AGENT_RUNNING_TASKS, t) IN
       (info # NoInfo /\ ~(info.client_id = a /\ info.channel = "ws"))
          => RunGet(AGENT_RUNNING_TASKS', t) = info

\* C26 as stated: no step a handler takes inside _drop_ws_connection(A), the
\* dispatch it ends with included, changes the record, the connection entry or the
\* idle membership of another agent, or an assignment that is not A's push assignment.
C26_DisconnectFrame ==
  [][\A p \in Procs :
       (proc'[p] # proc[p] /\ Dropping(proc[p].stack) # None)
          => OthersUnchanged(Dropping(proc[p].stack))]_vars

\* C26 amended: the lock section of _drop_ws_connection(A) collects exactly the
\* assignments bound to A with channel "ws", keeps every other assignment (other
\* agents', and A's long-poll ones) in place and in order, and changes no other agent's
\* record, connection entry or idle membership; each requeue step puts one collected
\* task at the front of the queue and changes nothing else.
C26_DropLockFrame ==
  [][\A p \in Procs :
       /\ (proc[p].pc = "drop_lock" /\ proc'[p].pc = "drop_requeue") =>
            LET a == Top(p).client_id
                f == proc'[p].stack[Len(proc'[p].stack)]
            IN /\ \A t \in 1..MaxTasks :
                    (t \in Range(f.requeue_tasks))
                      <=> (/\ RunGet(AGENT_RUNNING_TASKS, t).client_id = a
                           /\ RunGet(AGENT_RUNNING_TASKS, t).channel = "ws")
               /\ AGENT_RUNNING_TASKS' =
                    SelectSeq(AGENT_RUNNING_TASKS,
                              LAMBDA r : r.task_id \notin Range(f.requeue_tasks))
               /\ OthersUnchanged(a)
               /\ AGENT_PENDING_TASKS' = AGENT_PENDING_TASKS
               /\ AGENT_RESULTS' = AGENT_RESULTS
       /\ (/\ proc[p].pc = "drop_requeue" /\ proc'[p].pc = "drop_requeue"
           /\ proc'[p] # proc[p]) =>
            /\ Head(Top(p).todo) \in Range(Top(p).requeue_tasks)
            /\ AGENT_PENDING_TASKS' = <<Head(Top(p).todo)>> \o AGENT_PENDING_TASKS
            /\ AGENT_RUNNING_TASKS' = AGENT_RUNNING_TASKS
            /\ AGENT_CLIENTS' = AGENT_CLIENTS
            /\ AGENT_WS_CONNECTIONS' = AGENT_WS_CONNECTIONS
            /\ AGENT_WS_IDLE' = AGENT_WS_IDLE]_vars

\* the disconnect of an agent that held one task over push and one by long-poll has
\* been handled while the other agent is connected: the push task is back in the
\* queue, the long-poll assignment is still in the running table
C26_Witness ==
  \E p \in WsProcs, a \in Clients, b \in Clients :
    /\ b # a
    /\ proc[p].pc = "drop_requeue"
    /\ Top(p).client_id = a
    /\ Top(p).requeue_tasks # <<>> /\ Top(p).todo = <<>>
    /\ \E i \in 1..Len(AGENT_RUNNING_TASKS) :
         /\ AGENT_RUNNING_TASKS[i].client_id = a
         /\ AGENT_RUNNING_TASKS[i].channel = "none"
    /\ AGENT_WS_CONNECTIONS[b] # 0
    /\ Head(AGENT_PENDING_TASKS) \in Range(Top(p).requeue_tasks)

\* ---------------------------------------------------------------- C27
\* C27: _dispatch_tasks starts sending a task packet only to an agent that is in the
\* push connection table; a step that binds a task to an agent over push binds it to an
\* agent that is in the connection table and in the idle set; every other new
\* assignment is made by the agent's own GET /task, which answers 200 with that task;
\* and a GET /task that answers with a task has taken the head of the queue and put
\* the assignment (without a channel) in the running table in the same step.
C27_PushOnlyToConnected ==
  [][/\ \A p \in Procs :
          (proc[p].pc = "dispatch_for" /\ proc'[p].pc = "send_task")
             => AGENT_WS_CONNECTIONS[Top(p).assignments[Top(p).index][1]] # 0
     /\ \A t \in 1..MaxTasks :
          LET info == RunGet(AGENT_RUNNING_TASKS', t) IN
          (info # NoInfo /\ info # RunGet(AGENT_RUNNING_TASKS, t)) =>
             IF info.channel = "ws"
             THEN /\ AGENT_WS_CONNECTIONS[info.client_id] # 0
                  /\ info.client_id \in AGENT_WS_IDLE
                  /\ \E p \in Procs : proc[p].pc = "dispatch_while" /\ cur = p
             ELSE \E p \in HttpProcs :
                    /\ proc[p].kind = "fetch" /\ proc[p].pc = "pop_check"
                    /\ proc[p].client_id = info.client_id
                    /\ proc'[p].pc = "return" /\ proc'[p].resp = Resp(200, t, 0)
     /\ \A p \in HttpProcs :
          (proc[p].pc = "pop_check" /\ proc'[p].resp.code = 200) =>
             /\ AGENT_PENDING_TASKS # <<>>
             /\ proc'[p].resp.task_id = Head(AGENT_PENDING_TASKS)
             /\ RunGet(AGENT_RUNNING_TASKS', proc'[p].resp.task_id) =
                  [task_id |-> proc'[p].resp.task_id, client_id |-> proc[p].client_id,
                   channel |-> "none"]]_vars

\* the agent that only uses HTTP holds the task its GET /task answered with, while
\* the push agent is connected and holds a task sent over its connection
C27_Witness ==
  /\ AGENT_WS_CONNECTIONS[PushAgent] # 0 /\ AGENT_WS_CONNECTIONS[PollAgent] = 0
  /\ \E i \in 1..Len(AGENT_RUNNING_TASKS) :
       /\ AGENT_RUNNING_TASKS[i].client_id = PushAgent
       /\ AGENT_RUNNING_TASKS[i].channel = "ws"
  /\ \E p \in HttpProcs :
       /\ proc[p].kind = "fetch" /\ proc[p].pc = "return" /\ proc[p].resp.code = 200
       /\ proc[p].client_id = PollAgent
       /\ RunGet(AGENT_RUNNING_TASKS, proc[p].resp.task_id).client_id = PollAgent
       /\ RunGet(AGENT_RUNNING_TASKS, proc[p].resp.task_id).channel = "none"

\* ---------------------------------------------------------------- C28
\* C28: a GET /task of a registered agent with a wait budget of zero or less starts
\* with its deadline at the current time (the budget counts as zero), and its one
\* check of the queue ends the call: with 200 and the head of the queue, which it
\* takes, if the queue is not empty, with 204 and the queue untouched otherwise; it
\* never sleeps and never answers with another code.
C28_NoWaitNeverFails ==
  [][\A p \in HttpProcs :
       /\ (/\ proc[p].pc \notin {"pop_check", "sleep"}
           /\ proc'[p].pc = "pop_check" /\ proc'[p].timeout <= 0)
            => proc'[p].deadline = now
       /\ (proc[p].pc = "pop_check" /\ proc[p].timeout <= 0 /\ proc'[p] # proc[p])
            => /\ proc'[p].pc = "return"
               /\ IF AGENT_PENDING_TASKS # <<>>
                  THEN /\ proc'[p].resp = Resp(200, Head(AGENT_PENDING_TASKS), 0)
                       /\ AGENT_PENDING_TASKS' = Tail(AGENT_PENDING_TASKS)
                  ELSE /\ proc'[p].resp = Resp(204, None, 0)
                       /\ AGENT_PENDING_TASKS' = AGENT_PENDING_TASKS]_vars

\* a GET /task with a negative budget has been answered with "no task" while the
\* queue is empty and the clock has moved
C28_Witness ==
  /\ now > 0
  /\ AGENT_PENDING_TASKS = <<>>
  /\ \E p \in HttpProcs :
       /\ proc[p].kind = "fetch" /\ proc[p].pc = "return"
       /\ proc[p].timeout < 0 /\ proc[p].resp.code = 204
       /\ proc[p].deadline = now

\* ---------------------------------------------------------------- C29
\* C29: with one worker thread at most one task is inside _handle_task at any time;
\* on the websocket a task starts only after it was acknowledged and every task
\* acknowledged before it has left _handle_task (after its _submit_result); and
\* _task_loop issues GET /task only when no task it was handed is still being handled.
C29_OneTaskAtATime ==
  /\ [](Cardinality(Executing(agent)) <= Workers)
  /\ [][/\ \A t \in 1..MaxTasks :
             (agent.mode = "push" /\ agent.stage[t] = "none" /\ agent'.stage[t] = "entered")
                => /\ t \in agent.acked
                   /\ \A u \in agent.acked \ {t} :
                        u \notin Range(agent.queue) => agent.posts[u] = 1
        /\ (agent.loop = "get" /\ agent'.loop = "wait")
             => \A t \in 1..MaxTasks : agent.stage[t] \in {"none", "handled"}]_vars

\* the thread of EXECUTOR is never in _handle_task for two tasks
C29_OneInHandleTask == Cardinality(Executing(agent)) <= Workers

\* on the websocket a second task was received and acknowledged while the first is
\* still executing: it waits in the executor's queue
C29_Witness ==
  /\ agent.mode = "push"
  /\ \E t \in 1..MaxTasks : agent.stage[t] = "running"
  /\ \E u \in agent.acked : u \in Range(agent.queue) /\ agent.stage[u] = "none"

\* ---------------------------------------------------------------- C30
\* C30: whenever a step binds task T to agent A in the running table, over push or as
\* the answer to A's GET /task, A's registry record has status "running" and task id T
\* after the step.
C30_SameEffect ==
  [][\A t \in 1..MaxTasks :
       LET info == RunGet(AGENT_RUNNING_TASKS', t) IN
       (info # NoInfo /\ info # RunGet(AGENT_RUNNING_TASKS, t))
          => AGENT_CLIENTS'[info.client_id] = [status |-> "running", task_id |-> t]]_vars

\* ---------------------------------------------------------------- C31
\* C31: a step that handles a task_ack with accepted = false or a result (a result
\* packet or POST /task_result) from an agent other than the one task T is bound to
\* leaves T's entry in the running table as it is and puts no copy of T in the queue.
C31_OnlyOwnerEnds ==
  [][\A t \in 1..MaxTasks :
       LET info == RunGet(AGENT_RUNNING_TASKS, t) IN
       info # NoInfo =>
         \A p \in Procs :
           (\/ /\ p \in WsProcs
               /\ proc[p].pc = "ws_recv" /\ proc'[p].pc = "dispatch_lock"
               /\ proc'[p].task_id = t /\ proc[p].client_id # info.client_id
            \/ /\ p \in HttpProcs
               /\ proc[p].pc = "done" /\ proc'[p].kind = "result"
               /\ proc'[p].task_id = t /\ proc'[p].client_id # info.client_id)
             => /\ RunGet(AGENT_RUNNING_TASKS', t) = info
                /\ Count(AGENT_PENDING_TASKS', t) = Count(AGENT_PENDING_TASKS, t)]_vars

\* ---------------------------------------------------------------- C32
\* C32: when the handler of an old connection of agent A runs the lock section of
\* _drop_ws_connection in its finally clause while the connection table holds a newer
\* connection of A, the newer connection stays in the table, A's record is not set
\* to offline, A's assignments stay in the running table and A's idle membership
\* does not change.
C32_OldCloseKeepsNew ==
  [][\A p \in WsProcs :
       (/\ proc[p].kind = "ws" /\ Len(proc[p].stack) = 1
        /\ proc[p].pc = "drop_lock" /\ proc'[p].pc = "drop_requeue"
        /\ AGENT_WS_CONNECTIONS[proc[p].client_id] \notin {0, p})
          => LET a == proc[p].client_id IN
             /\ AGENT_WS_CONNECTIONS'[a] = AGENT_WS_CONNECTIONS[a]
             /\ AGENT_CLIENTS'[a].status # "offline"
             /\ AGENT_RUNNING_TASKS' = AGENT_RUNNING_TASKS
             /\ (a \in AGENT_WS_IDLE') = (a \in AGENT_WS_IDLE)]_vars

\* ---------------------------------------------------------------- C33
\* C33: the step that handles a result packet on the connection of agent A leaves the
\* coordinator tables in a state that depends on A, the task id and the status only,
\* not on the client id in the payload: the result is stored under A, A's record
\* becomes idle, A joins the idle set if it is connected, and no other agent's record
\* or idle membership changes.
C33_ResultUnderConnectionId ==
  [][\A p \in WsProcs :
       (/\ proc[p].pc = "ws_recv"
        /\ proc'[p].pc = "dispatch_lock" /\ proc'[p].ret = "send_result_ack")
          => LET a == proc[p].client_id
                 t == proc'[p].task_id
             IN /\ AGENT_RESULTS' = [AGENT_RESULTS EXCEPT
                                       ![t] = [client_id |-> a, status |-> proc'[p].status]]
                /\ AGENT_RUNNING_TASKS' = RunPop(AGENT_RUNNING_TASKS, t)
                /\ AGENT_CLIENTS' = [AGENT_CLIENTS EXCEPT
                                       ![a] = [status |-> "idle", task_id |-> None]]
                /\ AGENT_WS_IDLE' = IF AGENT_WS_CONNECTIONS[a] # 0
                                    THEN AGENT_WS_IDLE \cup {a} ELSE AGENT_WS_IDLE
                /\ AGENT_PENDING_TASKS' = AGENT_PENDING_TASKS
                /\ AGENT_WS_CONNECTIONS' = AGENT_WS_CONNECTIONS]_vars

\* a result packet whose payload names another registered agent has been handled: the
\* result is stored under the connection's agent and the named agent is still busy
C33_Witness ==
  \E p \in WsProcs :
    /\ proc[p].ret = "send_result_ack"
    /\ proc[p].payload_client \notin {None, proc[p].client_id}
    /\ AGENT_RESULTS[proc[p].task_id].client_id = proc[p].client_id
    /\ AGENT_CLIENTS[proc[p].payload_client].status = "running"
    /\ AGENT_CLIENTS[proc[p].client_id].status = "idle"

\* ---------------------------------------------------------------- C34
\* C34: a handler is never more _drop_ws_connection calls deep than there are agents;
\* the lock section of _drop_ws_connection that collects a task to requeue (and so
\* leads to another _dispatch_tasks) removes an entry from the connection table; the
\* handler the event loop is running finds the lock free at every place where it
\* takes it; and every handler that is inside _dispatch_tasks or _drop_ws_connection
\* eventually is back out of them.
C34_DispatchTerminates ==
  /\ [](\A p \in Procs :
          /\ Nesting(proc[p].stack) <= NumClients
          /\ (cur = p /\ proc[p].pc \in {"dispatch_lock", "dispatch_for", "drop_lock",
                                          "drop_requeue", "pop_check"})
               => AGENT_LOCK = 0)
  /\ [][\A p \in Procs :
          (/\ proc[p].pc = "drop_lock" /\ proc'[p].pc = "drop_requeue"
           /\ proc'[p].stack[Len(proc'[p].stack)].requeue_tasks # <<>>)
            => /\ AGENT_WS_CONNECTIONS[Top(p).client_id] # 0
               /\ AGENT_WS_CONNECTIONS'[Top(p).client_id] = 0]_vars
  /\ \A p \in Procs : (proc[p].stack # <<>>) ~> (proc[p].stack = <<>>)

\* the chain at its deepest: a send failed, the drop requeued the task, the dispatch
\* inside it handed the task to the other agent, that send failed too, and the
\* handler is inside the second _drop_ws_connection
C34_Witness ==
  \E p \in Procs :
    /\ Nesting(proc[p].stack) = 2
    /\ proc[p].pc = "drop_requeue"
    /\ Top(p).requeue_tasks # <<>>
    /\ \A c \in Clients : AGENT_WS_CONNECTIONS[c] = 0


\* ---------------------------------------------------------------- C35
\* C35: every task that has left _handle_task had exactly one call of _submit_result,
\* with the status "success" exactly when the try block ended without raising; while
\* the task is executed the agent's status is "running" with its task id; and the
\* status goes back to "idle" with no task id only after that call.
C35_OneSubmission ==
  /\ [](\A t \in 1..MaxTasks :
          /\ agent.stage[t] \in {"handled", "raised"} => agent.posts[t] = 1
          /\ agent.stage[t] \in {"running", "ran_ok", "ran_raised"}
               => agent.status = "running" /\ agent.current = t)
  /\ [][/\ \A t \in 1..MaxTasks :
             agent'.posts[t] # agent.posts[t]
                => /\ agent'.posts[t] = 1
                   /\ agent.result[t] = "success" <=> agent.stage[t] = "ran_ok"
                   /\ agent.result[t] = "failed" <=> agent.stage[t] = "ran_raised"
        /\ (agent.status = "running" /\ agent'.status = "idle")
             => /\ agent'.current = None
                /\ \E t \in 1..MaxTasks :
                     agent.current = t /\ agent.stage[t] = "reported" /\ agent.posts[t] = 1]_vars

\* the same for the tasks whose run directory could be made
C35_WhenEntered ==
  /\ [](\A t \in 1..MaxTasks :
          /\ agent.stage[t] = "handled" => agent.posts[t] = 1
          /\ agent.stage[t] \in {"running", "ran_ok", "ran_raised"}
               => agent.status = "running" /\ agent.current = t)
  /\ [][\A t \in 1..MaxTasks :
          agent'.posts[t] # agent.posts[t]
             => /\ agent'.posts[t] = 1
                /\ agent.result[t] = "success" <=> agent.stage[t] = "ran_ok"]_vars


\* ---------------------------------------------------------------- C36
\* C36: the reconnect delay of the push agent is always between 1 and 60: it is 1 when
\* the loop starts, it changes only by being doubled (capped at 60) after the sleep
\* that follows a failed attempt, or by being reset to 1 when a connection is
\* established; and the loop is left only when the stop event is set.
C36_BackoffRange ==
  /\ [](/\ agent.backoff \in 1..60
        /\ agent.ws = "off" => agent.backoff = 1
        /\ agent.ws = "open" => agent.backoff = 1
        /\ agent.ws = "ended" => agent.stop)
  /\ [][/\ (agent.ws = "off" /\ agent'.ws # "off") => agent'.backoff = 1
        /\ (agent.ws = "sleep" /\ agent'.ws # "sleep")
             => agent'.backoff = IF agent.backoff * 2 <= 60 THEN agent.backoff * 2 ELSE 60
        /\ agent'.backoff # agent.backoff
             => \/ agent.ws = "sleep"
                \/ agent.ws = "connecting" /\ agent'.ws = "open"]_vars

\* the agent sleeps the longest delay: six failed attempts in a row came before
C36_Witness ==
  /\ agent.ws = "sleep" /\ agent.backoff = 60 /\ ~agent.stop

====
